---- MODULE Spec2Model ----
(***************************************************************************)
(* Model of the Magic Mirror pose comparison engine                        *)
(* (src/src/utils/poseComparison.js) and of the callers that feed it.      *)
(*                                                                         *)
(* Numbers.  JavaScript numbers are modelled in binary fixed point:        *)
(*   - camera coordinates, normalised positions, angles (radians), face    *)
(*     ratios and motion sums are integers counting 1/Unit (Unit = 2^10);  *)
(*   - distances between feature vectors and DTW costs are integers        *)
(*     counting 1/DistUnit (DistUnit = 2^24), so that the 24-bit           *)
(*     significand of the Float32Array holding the cumulative costs is     *)
(*     modelled at its real width (Fround).                                *)
(* Arrays are sequences: JavaScript index k is TLA+ index k + 1.           *)
(***************************************************************************)
EXTENDS Integers, Sequences, FiniteSets, TLC

Unit == 2 ^ 10
DistUnit == 2 ^ 24

\* Math.PI / 4 in 1/Unit; every other angle constant is a multiple of it, so
\* that the eight compass directions have exact angles.
PI4 == 804
PI == 4 * PI4

\* null and undefined: an absent array.  The code treats an absent array and an
\* empty one alike (both fail its length tests), so one value stands for both.
NULL == <<>>
Infinity == "Infinity"

----------------------------------------------------------------------------
\* Arithmetic helpers

Abs(x) == IF x < 0 THEN -x ELSE x

Min2(a, b) == IF a <= b THEN a ELSE b

Max2(a, b) == IF a >= b THEN a ELSE b

Min3(a, b, c) == Min2(a, Min2(b, c))

\* a / b rounded to the nearest integer, halves away from zero (b > 0); the
\* rounding is symmetric under negation, as a floating-point division is.
RoundDiv(a, b) ==
  IF a >= 0 THEN (2 * a + b) \div (2 * b) ELSE -((2 * (-a) + b) \div (2 * b))

RECURSIVE SqrtSearch(_, _, _)
SqrtSearch(x, lo, hi) ==
  IF lo >= hi THEN lo
  ELSE LET mid == (lo + hi + 1) \div 2
       IN IF mid * mid <= x THEN SqrtSearch(x, mid, hi)
          ELSE SqrtSearch(x, lo, mid - 1)

\* Math.sqrt, rounded to the nearest integer.
Sqrt(x) ==
  LET r == IF x < 1024 THEN SqrtSearch(x, 0, 31)
           ELSE IF x < 65536 THEN SqrtSearch(x, 32, 255)
           ELSE IF x < 1048576 THEN SqrtSearch(x, 256, 1023)
           ELSE IF x < 16777216 THEN SqrtSearch(x, 1024, 4095)
           ELSE SqrtSearch(x, 4096, 46340)
  IN IF x - r * r > r THEN r + 1 ELSE r

\* Math.hypot
Hypot(a, b) == Sqrt(a * a + b * b)

RECURSIVE SumSeq(_)
SumSeq(s) == IF s = <<>> THEN 0 ELSE Head(s) + SumSeq(Tail(s))

RECURSIVE Concat(_)
Concat(ss) == IF ss = <<>> THEN <<>> ELSE Head(ss) \o Concat(Tail(ss))

Zeros(k) == [i \in 1..k |-> 0]

\* atan(a / b) for 0 <= a <= b, b > 0: exact at a = 0 and a = b, and within
\* 0.004 rad in between (atan t ~ t * (pi/4 + 0.273 * (1 - t))).
AtanRatio(a, b) ==
  LET t == RoundDiv(a * Unit, b)
  IN RoundDiv(t * PI4, Unit) + RoundDiv(279 * t * (Unit - t), Unit * Unit)

\* Math.atan2(y, x), in (-PI, PI]
Atan2(y, x) ==
  IF x = 0 /\ y = 0 THEN 0
  ELSE LET ax == Abs(x)
           ay == Abs(y)
           oct == IF ay <= ax THEN AtanRatio(ay, ax)
                  ELSE 2 * PI4 - AtanRatio(ax, ay)
           half == IF x < 0 THEN PI - oct ELSE oct
       IN IF y < 0 THEN -half ELSE half

----------------------------------------------------------------------------
\* Constants of the engine

FIXED_VECTOR_LENGTH == 60

\* The face landmarks read by extractFaceFeatures (JavaScript indices).
FACE_INDICES ==
  [leftEyeTop |-> 159, leftEyeBottom |-> 145,
   rightEyeTop |-> 386, rightEyeBottom |-> 374,
   leftBrow |-> 70, rightBrow |-> 300,
   leftEyeCenter |-> 33, rightEyeCenter |-> 263,
   upperLip |-> 13, lowerLip |-> 14,
   mouthLeft |-> 61, mouthRight |-> 291,
   chin |-> 152, forehead |-> 10]

\* [a, b, c] -> angle at b (JavaScript indices into the 21-point hand)
FINGER_ANGLE_TRIPLETS ==
  << <<0, 1, 2>>, <<1, 2, 3>>, <<2, 3, 4>>,
     <<0, 5, 6>>, <<5, 6, 7>>, <<6, 7, 8>>,
     <<0, 9, 10>>, <<9, 10, 11>>, <<10, 11, 12>>,
     <<0, 13, 14>>, <<13, 14, 15>>, <<14, 15, 16>>,
     <<0, 17, 18>>, <<17, 18, 19>>, <<18, 19, 20>> >>

\* Upper body joints (JavaScript indices) in the live 33-point pose and in
\* the compact 17-point reference pose, in subset order
\* [lShoulder, rShoulder, lElbow, rElbow, lWrist, rWrist, lHip, rHip].
LIVE_UPPER == <<11, 12, 13, 14, 15, 16, 23, 24>>

REF_UPPER == <<4, 3, 6, 5, 8, 7, 16, 15>>

\* Arm segments, as pairs of (JavaScript) subset indices.
ARM_SEGMENTS == << <<1, 3>>, <<3, 5>>, <<0, 2>>, <<2, 4>> >>

\* Component layout of the feature vector; weights in tenths (2.5 -> 25).
COMPONENTS ==
  << [start |-> 0, end |-> 4, weight |-> 25],
     [start |-> 4, end |-> 20, weight |-> 20],
     [start |-> 20, end |-> 24, weight |-> 20],
     [start |-> 24, end |-> 39, weight |-> 25],
     [start |-> 39, end |-> 54, weight |-> 25],
     [start |-> 54, end |-> 60, weight |-> 10] >>

MIRROR_SWAP_PAIRS == << <<11, 12>>, <<13, 14>>, <<15, 16>>, <<23, 24>> >>

----------------------------------------------------------------------------
\* Normalization

\* normalizeSubset: translate to the shoulder centre, scale by body size.
\* cx, cy, hipCx, hipCy are kept doubled (cx2 = 2 * cx) and the scale
\* quadrupled (scale4 = 4 * scale = 2 * shoulderW + 2 * torsoH), so that the
\* halves stay integers; (x - cx) / scale = 2 * (2 * x - cx2) / scale4.
normalizeSubset(points) ==
  IF points = NULL \/ Len(points) < 8 THEN NULL
  ELSE LET cx2 == points[1][1] + points[2][1]
           cy2 == points[1][2] + points[2][2]
           shoulderW == Hypot(points[1][1] - points[2][1],
                              points[1][2] - points[2][2])
           hipCx2 == points[7][1] + points[8][1]
           hipCy2 == points[7][2] + points[8][2]
           torsoH2 == Hypot(cx2 - hipCx2, cy2 - hipCy2)
           scale4 == 2 * shoulderW + torsoH2
       IN IF 100 * scale4 < 4 * Unit THEN NULL
          ELSE [k \in 1..Len(points) |->
                  << RoundDiv(2 * (2 * points[k][1] - cx2) * Unit, scale4),
                     RoundDiv(2 * (2 * points[k][2] - cy2) * Unit, scale4) >>]

----------------------------------------------------------------------------
\* Feature extraction

\* angleBetween: the angle at b in the triangle a-b-c, in [0, PI].  The code's
\* acos(dot / (|ba| |bc|)) is computed as atan2(|ba x bc|, ba . bc), which is
\* the same angle.
angleBetween(a, b, c) ==
  LET bax == a[1] - b[1]
      bay == a[2] - b[2]
      bcx == c[1] - b[1]
      bcy == c[2] - b[2]
      dot == bax * bcx + bay * bcy
      cross == bax * bcy - bay * bcx
      magBA == Hypot(bax, bay)
      magBC == Hypot(bcx, bcy)
  IN IF 1000000 * magBA < Unit \/ 1000000 * magBC < Unit THEN PI
     ELSE Atan2(Abs(cross), dot)

\* segAngle(points, a, b), a and b JavaScript indices
segAngle(points, a, b) ==
  Atan2(points[b + 1][2] - points[a + 1][2], points[b + 1][1] - points[a + 1][1])

extractFingerAngles(hand) ==
  IF hand = NULL \/ Len(hand) < 21 THEN NULL
  ELSE [t \in 1..Len(FINGER_ANGLE_TRIPLETS) |->
          angleBetween(hand[FINGER_ANGLE_TRIPLETS[t][1] + 1],
                       hand[FINGER_ANGLE_TRIPLETS[t][2] + 1],
                       hand[FINGER_ANGLE_TRIPLETS[t][3] + 1])]

\* extractFaceFeatures.  A face mesh is modelled by its length and the
\* landmarks the code reads: << length, [index |-> <<x, y>>] >>.
extractFaceFeatures(face) ==
  IF face = NULL \/ face[1] < 468 THEN NULL
  ELSE LET F == FACE_INDICES
           P(i) == face[2][i]
           faceH == Abs(P(F.chin)[2] - P(F.forehead)[2])
           Ratio(d) == RoundDiv(d * Unit, faceH)
       IN IF 1000 * faceH < Unit THEN NULL
          ELSE << Ratio(P(F.leftEyeCenter)[2] - P(F.leftBrow)[2]),
                  Ratio(P(F.rightEyeCenter)[2] - P(F.rightBrow)[2]),
                  Ratio(P(F.leftEyeBottom)[2] - P(F.leftEyeTop)[2]),
                  Ratio(P(F.rightEyeBottom)[2] - P(F.rightEyeTop)[2]),
                  Ratio(P(F.lowerLip)[2] - P(F.upperLip)[2]),
                  Ratio(Abs(P(F.mouthRight)[1] - P(F.mouthLeft)[1])) >>

\* The two while loops wrapping an angle difference (lines 174-175).
RECURSIVE WrapDown(_)
WrapDown(diff) == IF diff > PI THEN WrapDown(diff - 2 * PI) ELSE diff

\* WrapUp without the loop
WrapUp_Never(diff) == diff

RECURSIVE WrapUp(_)
WrapUp(diff) == IF diff < -PI THEN WrapUp(diff + 2 * PI) ELSE diff

\* featureRecord without the padding of an absent hand or face
featureRecord_NoPadding(armAngles, positions, rightFingers, leftFingers, faceFeatures, prevArmAngles) ==
  LET velocity == IF prevArmAngles # NULL
                  THEN [i \in 1..Len(armAngles) |->
                          WrapUp(WrapDown(armAngles[i] - prevArmAngles[i]))]
                  ELSE <<0, 0, 0, 0>>
      vector == armAngles \o positions \o velocity
                \o (IF rightFingers # NULL THEN rightFingers ELSE <<>>)
                \o (IF leftFingers # NULL THEN leftFingers ELSE <<>>)
                \o (IF faceFeatures # NULL THEN faceFeatures ELSE <<>>)
  IN [armAngles |-> armAngles, positions |-> positions, velocity |-> velocity,
      rightFingers |-> rightFingers, leftFingers |-> leftFingers,
      faceFeatures |-> faceFeatures, vector |-> vector]

\* extractFeatures from the velocity on (lines 169-200), given the arm angles,
\* the positions and the finger and face features computed before
featureRecord(armAngles, positions, rightFingers, leftFingers, faceFeatures, prevArmAngles) ==
  LET velocity == IF prevArmAngles # NULL
                  THEN [i \in 1..Len(armAngles) |->
                          WrapUp(WrapDown(armAngles[i] - prevArmAngles[i]))]
                  ELSE <<0, 0, 0, 0>>
      vector == armAngles \o positions \o velocity
                \o (IF rightFingers # NULL THEN rightFingers ELSE Zeros(15))
                \o (IF leftFingers # NULL THEN leftFingers ELSE Zeros(15))
                \o (IF faceFeatures # NULL THEN faceFeatures ELSE Zeros(6))
  IN [armAngles |-> armAngles, positions |-> positions, velocity |-> velocity,
      rightFingers |-> rightFingers, leftFingers |-> leftFingers,
      faceFeatures |-> faceFeatures, vector |-> vector]

\* extractFeatures
extractFeatures(normSubset, rightHand, leftHand, prevArmAngles, face) ==
  featureRecord([s \in 1..Len(ARM_SEGMENTS) |->
                   segAngle(normSubset, ARM_SEGMENTS[s][1], ARM_SEGMENTS[s][2])],
                Concat(normSubset),
                extractFingerAngles(rightHand),
                extractFingerAngles(leftHand),
                extractFaceFeatures(face),
                prevArmAngles)

----------------------------------------------------------------------------
\* Similarity metrics

\* vec[i] for a JavaScript index i, 0 past the end (lines 232-233)
Slot(vec, i) == IF i < Len(vec) THEN vec[i + 1] ELSE 0

\* CompScan reading vecB one slot further on than vecA
RECURSIVE CompScan_OffByOne(_, _, _, _, _)
CompScan_OffByOne(vecA, vecB, i, end, acc) ==
  IF i >= end THEN acc
  ELSE LET a == Slot(vecA, i)
           b == Slot(vecB, i + 1)
           diff == a - b
       IN CompScan_OffByOne(vecA, vecB, i + 1, end,
                            [sum |-> acc.sum + diff * diff,
                             hasData |-> acc.hasData \/ a # 0 \/ b # 0])

\* The inner loop of featureDistance over one component: the sum of the
\* squared differences and whether either side has a non-zero slot.
RECURSIVE CompScan(_, _, _, _, _)
CompScan(vecA, vecB, i, end, acc) ==
  IF i >= end THEN acc
  ELSE LET a == Slot(vecA, i)
           b == Slot(vecB, i)
           diff == a - b
       IN CompScan(vecA, vecB, i + 1, end,
                   [sum |-> acc.sum + diff * diff,
                    hasData |-> acc.hasData \/ a # 0 \/ b # 0])

\* CompLoop with a component without data counted as a component of
\* identical values: nothing in the sum, its weight in the total.
RECURSIVE CompLoop_CountsEmpty(_, _, _, _)
CompLoop_CountsEmpty(vecA, vecB, c, acc) ==
  IF c > Len(COMPONENTS) THEN acc
  ELSE LET comp == COMPONENTS[c]
           scan == CompScan(vecA, vecB, comp.start, comp.end,
                            [sum |-> 0, hasData |-> FALSE])
           dims == comp.end - comp.start
       IN CompLoop_CountsEmpty(vecA, vecB, c + 1,
            [weightedSum |-> acc.weightedSum
                               + comp.weight * Sqrt(RoundDiv(scan.sum, dims)),
             totalWeight |-> acc.totalWeight + comp.weight])

\* The outer loop of featureDistance: weightedSum (tenths of 1/Unit) and
\* totalWeight (tenths) over the components with data.
RECURSIVE CompLoop(_, _, _, _)
CompLoop(vecA, vecB, c, acc) ==
  IF c > Len(COMPONENTS) THEN acc
  ELSE LET comp == COMPONENTS[c]
           scan == CompScan(vecA, vecB, comp.start, comp.end,
                            [sum |-> 0, hasData |-> FALSE])
           dims == comp.end - comp.start
       IN IF ~scan.hasData THEN CompLoop(vecA, vecB, c + 1, acc)
          ELSE CompLoop(vecA, vecB, c + 1,
                 [weightedSum |-> acc.weightedSum
                                    + comp.weight * Sqrt(RoundDiv(scan.sum, dims)),
                  totalWeight |-> acc.totalWeight + comp.weight])

\* featureDistance, in 1/DistUnit
featureDistance(vecA, vecB) ==
  LET acc == CompLoop(vecA, vecB, 1, [weightedSum |-> 0, totalWeight |-> 0])
  IN IF 10 * acc.totalWeight < 1 THEN 0
     ELSE RoundDiv(acc.weightedSum, acc.totalWeight) * (DistUnit \div Unit)

\* ScoreThresholds[k] is the largest distance (in 1/DistUnit) d with
\* Math.round(100 * Math.exp(-d * d / (2 * 0.9 * 0.9))) >= k, for k = 1..100.
ScoreThresholds ==
  << 49152587, 43760955, 41013292, 39098112, 37604064,
     36367044, 35304206, 34367637, 33527025, 32761925,
     32057865, 31404212, 30792912, 30217710, 29673649,
     29156730, 28663675, 28191765, 27738716, 27302589,
     26881725, 26474691, 26080239, 25697279, 25324846,
     24962087, 24608242, 24262629, 23924634, 23593702,
     23269330, 22951059, 22638469, 22331174, 22028820,
     21731078, 21437644, 21148234, 20862583, 20580444,
     20301585, 20025786, 19752841, 19482552, 19214733,
     18949208, 18685804, 18424359, 18164715, 17906721,
     17650228, 17395094, 17141178, 16888344, 16636456,
     16385381, 16134988, 15885145, 15635720, 15386582,
     15137600, 14888637, 14639559, 14390226, 14140496,
     13890222, 13639252, 13387429, 13134589, 12880557,
     12625154, 12368186, 12109448, 11848722, 11585771,
     11320342, 11052158, 10780917, 10506287, 10227902,
     9945352, 9658181, 9365871, 9067835, 8763397,
     8451774, 8132049, 7803134, 7463722, 7112216,
     6746630, 6364440, 5962352, 5535926, 5078925,
     4582090, 4030585, 3397742, 2625197, 1511842 >>

\* distToScore with the sign of the exponent lost: the score grows with
\* the distance
distToScore_Rising(dist) ==
  Max2(0, Min2(100, Cardinality({k \in 1..100 : dist >= ScoreThresholds[k]})))

\* distToScore: Math.max(0, Math.min(100, Math.round(100 * exp(-d^2 / 2 sigma^2))))
distToScore(dist) ==
  Max2(0, Min2(100, Cardinality({k \in 1..100 : dist <= ScoreThresholds[k]})))

\* MathRound without the division: the sum where the mean is meant
MathRound_Sum(num, den) == num

\* Math.round of the non-negative quotient num / den (halves round up)
MathRound(num, den) == (2 * num + den) \div (2 * den)

----------------------------------------------------------------------------
\* DTW

\* The smallest power of two q with x / q < 2^24
RECURSIVE Quantum(_, _)
Quantum(x, q) == IF x \div q < 2 ^ 24 THEN q ELSE Quantum(x, 2 * q)

\* A store into a Float32Array element: x >= 0 rounded to a 24-bit
\* significand, to nearest, ties to even.
Fround(x) ==
  LET q == Quantum(x, 1)
      lo == (x \div q) * q
      rem == x - lo
  IN IF 2 * rem < q THEN lo
     ELSE IF 2 * rem > q THEN lo + q
     ELSE IF (x \div q) % 2 = 0 THEN lo ELSE lo + q

\* cost[0][0..m-1] (lines 295-296)
RECURSIVE FirstRow(_, _)
FirstRow(d0, acc) ==
  IF Len(acc) = Len(d0) THEN acc
  ELSE IF acc = <<>> THEN FirstRow(d0, <<Fround(d0[1])>>)
  ELSE FirstRow(d0, Append(acc, Fround(acc[Len(acc)] + d0[Len(acc) + 1])))

\* cost[i][0..m-1] from cost[i-1] (lines 297-302)
RECURSIVE NextRow(_, _, _)
NextRow(prev, di, acc) ==
  IF Len(acc) = Len(di) THEN acc
  ELSE IF acc = <<>> THEN NextRow(prev, di, <<Fround(prev[1] + di[1])>>)
  ELSE LET j == Len(acc) + 1
       IN NextRow(prev, di,
                  Append(acc, Fround(di[j] + Min3(prev[j], acc[j - 1], prev[j - 1]))))

\* The cumulative cost matrix (lines 294-302)
RECURSIVE CostRows(_, _)
CostRows(distMatrix, acc) ==
  IF Len(acc) = Len(distMatrix) THEN acc
  ELSE IF acc = <<>> THEN CostRows(distMatrix, <<FirstRow(distMatrix[1], <<>>)>>)
  ELSE CostRows(distMatrix,
                Append(acc, NextRow(acc[Len(acc)], distMatrix[Len(acc) + 1], <<>>)))

\* BackStep that tries up before the diagonal
BackStep_UpFirst(cost, i, j) ==
  IF i = 0 THEN <<i, j - 1>>
  ELSE IF j = 0 THEN <<i - 1, j>>
  ELSE LET d == cost[i][j]
           u == cost[i][j + 1]
           l == cost[i + 1][j]
       IN IF u <= d /\ u <= l THEN <<i - 1, j>>
          ELSE IF d <= l THEN <<i - 1, j - 1>>
          ELSE <<i, j - 1>>

\* BackStep that forgets j-- on the border i = 0
BackStep_StaysOnBorder(cost, i, j) ==
  IF i = 0 THEN <<i, j>>
  ELSE IF j = 0 THEN <<i - 1, j>>
  ELSE LET d == cost[i][j]
           u == cost[i][j + 1]
           l == cost[i + 1][j]
       IN IF d <= u /\ d <= l THEN <<i - 1, j - 1>>
          ELSE IF u <= l THEN <<i - 1, j>>
          ELSE <<i, j - 1>>

\* One step of the backtrace loop (lines 309-316): the next cell, as
\* JavaScript indices <<i, j>>.
BackStep(cost, i, j) ==
  IF i = 0 THEN <<i, j - 1>>
  ELSE IF j = 0 THEN <<i - 1, j>>
  ELSE LET d == cost[i][j]
           u == cost[i][j + 1]
           l == cost[i + 1][j]
       IN IF d <= u /\ d <= l THEN <<i - 1, j - 1>>
          ELSE IF u <= l THEN <<i - 1, j>>
          ELSE <<i, j - 1>>

\* Backtrace with the loop condition i > 0 && j > 0
RECURSIVE Backtrace_StopsAtEdge(_, _)
Backtrace_StopsAtEdge(cost, path) ==
  LET i == path[Len(path)][1]
      j == path[Len(path)][2]
  IN IF ~(i > 0 /\ j > 0) THEN path
     ELSE Backtrace_StopsAtEdge(cost, Append(path, BackStep(cost, i, j)))

\* The backtrace loop (lines 308-318): path as pushed, from (n-1, m-1) back.
RECURSIVE Backtrace(_, _)
Backtrace(cost, path) ==
  LET i == path[Len(path)][1]
      j == path[Len(path)][2]
  IN IF ~(i > 0 \/ j > 0) THEN path
     ELSE Backtrace(cost, Append(path, BackStep(cost, i, j)))

Reverse(s) == [k \in 1..Len(s) |-> s[Len(s) + 1 - k]]

\* dtw from the distance matrix on (lines 293-327), with its locals: n, m >= 1.
dtwLocals(distMatrix) ==
  LET n == Len(distMatrix)
      m == Len(distMatrix[1])
      cost == CostRows(distMatrix, <<>>)
      path == Reverse(Backtrace(cost, << <<n - 1, m - 1>> >>))
      pathDists == [k \in 1..Len(path) |-> distMatrix[path[k][1] + 1][path[k][2] + 1]]
      pathScores == [k \in 1..Len(path) |-> distToScore(pathDists[k])]
  IN [cost |-> cost, path |-> path, pathDists |-> pathDists,
      score |-> MathRound(SumSeq(pathScores), Len(pathScores)),
      pathScores |-> pathScores,
      avgDistance |-> RoundDiv(SumSeq(pathDists), Len(pathDists))]

\* The distance matrix of dtw (lines 285-291)
DistMatrix(seqA, seqB) ==
  [i \in 1..Len(seqA) |-> [j \in 1..Len(seqB) |-> featureDistance(seqA[i], seqB[j])]]

\* dtw from the distance matrix on, with the early return of line 283
dtwFromMatrix(n, m, distMatrix) ==
  IF n = 0 \/ m = 0
  THEN [score |-> 0, pathScores |-> <<>>, avgDistance |-> Infinity]
  ELSE dtwLocals(distMatrix)

\* dtw(seqA, seqB): the value returned
dtw(seqA, seqB) ==
  LET r == dtwFromMatrix(Len(seqA), Len(seqB), DistMatrix(seqA, seqB))
  IN [score |-> r.score, pathScores |-> r.pathScores,
      avgDistance |-> r.avgDistance]

\* The distance matrix of dtw for two sequences of one-slot vectors
\* [2 * a / DistUnit]: only the arm-angle component has data, and
\* featureDistance is 2.5 * sqrt((2a - 2b)^2 / 4) / 2.5 = |a - b| (in
\* 1/DistUnit), which is 0 when both slots are 0.
TrackMatrix(trackA, trackB) ==
  [i \in 1..Len(trackA) |-> [j \in 1..Len(trackB) |-> Abs(trackA[i] - trackB[j])]]

----------------------------------------------------------------------------
\* Mirroring

\* Reflect without the reflection
Reflect_Identity(p) == p

\* [x, y] -> [1 - x, y]
Reflect(p) == <<Unit - p[1], p[2]>>

\* The swap loop without the temporary: the left joint is overwritten
\* before it is copied to the right.
RECURSIVE SwapPairs_NoTemp(_, _)
SwapPairs_NoTemp(pose, k) ==
  IF k > Len(MIRROR_SWAP_PAIRS) THEN pose
  ELSE LET l == MIRROR_SWAP_PAIRS[k][1]
           r == MIRROR_SWAP_PAIRS[k][2]
       IN IF l < Len(pose) /\ r < Len(pose)
          THEN SwapPairs_NoTemp([pose EXCEPT ![l + 1] = pose[r + 1]], k + 1)
          ELSE SwapPairs_NoTemp(pose, k + 1)

\* The swap loop of mirrorLiveFrames (lines 360-366)
RECURSIVE SwapPairs(_, _)
SwapPairs(pose, k) ==
  IF k > Len(MIRROR_SWAP_PAIRS) THEN pose
  ELSE LET l == MIRROR_SWAP_PAIRS[k][1]
           r == MIRROR_SWAP_PAIRS[k][2]
       IN IF l < Len(pose) /\ r < Len(pose)
          THEN SwapPairs([pose EXCEPT ![l + 1] = pose[r + 1], ![r + 1] = pose[l + 1]],
                         k + 1)
          ELSE SwapPairs(pose, k + 1)

\* The callback of mirrorLiveFrames for one frame
mirrorFrame(frame) ==
  [pose |-> IF frame.pose # NULL
            THEN SwapPairs([k \in 1..Len(frame.pose) |-> Reflect(frame.pose[k])], 1)
            ELSE NULL,
   rightHand |-> IF frame.leftHand # NULL
                 THEN [k \in 1..Len(frame.leftHand) |-> Reflect(frame.leftHand[k])]
                 ELSE NULL,
   leftHand |-> IF frame.rightHand # NULL
                THEN [k \in 1..Len(frame.rightHand) |-> Reflect(frame.rightHand[k])]
                ELSE NULL,
   face |-> frame.face]

mirrorLiveFrames(frames) == [f \in 1..Len(frames) |-> mirrorFrame(frames[f])]

----------------------------------------------------------------------------
\* Motion detection

\* The inner loop of computeMotion over one vector (lines 389-391)
RECURSIVE VecMotion(_, _)
VecMotion(vec, i) ==
  IF ~(i < 24 /\ i < Len(vec)) THEN 0
  ELSE Abs(vec[i + 1]) + VecMotion(vec, i + 1)

computeMotion(featureSeq) ==
  SumSeq([k \in 1..Len(featureSeq) |-> VecMotion(featureSeq[k], 20)])

\* applyMotionPenalty blending the cap into the score instead of imposing it
applyMotionPenalty_Blend(score, liveMotion, refMotion) ==
  IF 100 * refMotion < Unit THEN score
  ELSE IF 10 * liveMotion < 3 * refMotion THEN (score + 15) \div 2
  ELSE IF 10 * liveMotion < 5 * refMotion THEN (score + 30) \div 2
  ELSE IF 10 * liveMotion < 7 * refMotion THEN (score + 55) \div 2
  ELSE score

\* applyMotionPenalty without the lowest band
applyMotionPenalty_NoFloor(score, liveMotion, refMotion) ==
  IF 100 * refMotion < Unit THEN score
  ELSE IF 10 * liveMotion < 5 * refMotion THEN Min2(score, 30)
  ELSE IF 10 * liveMotion < 7 * refMotion THEN Min2(score, 55)
  ELSE score

\* applyMotionPenalty; liveMotion / refMotion < 0.3 is 10 * live < 3 * ref
applyMotionPenalty(score, liveMotion, refMotion) ==
  IF 100 * refMotion < Unit THEN score
  ELSE IF 10 * liveMotion < 3 * refMotion THEN Min2(score, 15)
  ELSE IF 10 * liveMotion < 5 * refMotion THEN Min2(score, 30)
  ELSE IF 10 * liveMotion < 7 * refMotion THEN Min2(score, 55)
  ELSE score

----------------------------------------------------------------------------
\* Public API

\* The body of the loop shared by processLiveFrames and processRefFrames
\* once the pose is known to be long enough: the features of the frame, or
\* NULL when the frame is skipped.  upper is the index table.
featuresOfNorm(norm, frame, prevAngles) ==
  IF norm = NULL THEN NULL
  ELSE extractFeatures(norm, frame.rightHand, frame.leftHand, prevAngles, frame.face)

featuresOfFrame(frame, upper, minLen, prevAngles) ==
  IF frame.pose = NULL \/ Len(frame.pose) < minLen THEN NULL
  ELSE featuresOfNorm(normalizeSubset([s \in 1..Len(upper) |-> frame.pose[upper[s] + 1]]),
                      frame, prevAngles)

\* The loop: features and prevAngles are the loop's variables, feat the
\* features of frame k.
RECURSIVE ProcessLoop(_, _, _, _, _, _)
RECURSIVE ProcessStep(_, _, _, _, _, _, _)
\* ProcessStep that forgets the previous angles when a frame is dropped
ProcessStep_ForgetsOnDrop(frames, k, upper, minLen, features, prevAngles, feat) ==
  IF feat = NULL
  THEN ProcessLoop(frames, k + 1, upper, minLen, features, NULL)
  ELSE ProcessLoop(frames, k + 1, upper, minLen,
                   Append(features, feat.vector), feat.armAngles)

ProcessStep(frames, k, upper, minLen, features, prevAngles, feat) ==
  IF feat = NULL
  THEN ProcessLoop(frames, k + 1, upper, minLen, features, prevAngles)
  ELSE ProcessLoop(frames, k + 1, upper, minLen,
                   Append(features, feat.vector), feat.armAngles)

ProcessLoop(frames, k, upper, minLen, features, prevAngles) ==
  IF k > Len(frames) THEN features
  ELSE ProcessStep(frames, k, upper, minLen, features, prevAngles,
                   featuresOfFrame(frames[k], upper, minLen, prevAngles))

processLiveFrames(frames) == ProcessLoop(frames, 1, LIVE_UPPER, 25, <<>>, NULL)

processRefFrames(frames) == ProcessLoop(frames, 1, REF_UPPER, 17, <<>>, NULL)

\* useMirrored with >= for >
useMirrored_OrEqual(resultOriginal, resultMirrored) ==
  resultMirrored.score >= resultOriginal.score

\* const useMirrored = resultMirrored.score > resultOriginal.score
useMirrored(resultOriginal, resultMirrored) ==
  resultMirrored.score > resultOriginal.score

\* compareDTW in the order of its statements, each local computed once and
\* handed on; the record returned holds the locals and, as result, the value
\* compareDTW returns.

\* compareDTWReturn with lowMotion set when the cap lowered the score
compareDTWReturn_FlagFromCap(refFeats, liveFeats, mirroredFrames, mirroredFeats, resultOriginal, resultMirrored, useMir, best, refMotion, liveMotion, penalisedScore) ==
  [insufficient |-> FALSE,
   refFeats |-> refFeats, liveFeats |-> liveFeats,
   mirroredFrames |-> mirroredFrames, mirroredFeats |-> mirroredFeats,
   originalScore |-> resultOriginal.score,
   mirroredScore |-> resultMirrored.score,
   refMotion |-> refMotion, liveMotion |-> liveMotion,
   rawScore |-> best.score,
   result |-> [score |-> penalisedScore,
               liveFeatureCount |-> Len(liveFeats),
               refFeatureCount |-> Len(refFeats),
               mirrored |-> useMir,
               lowMotion |-> penalisedScore < best.score] @@ best]

\* lines 496-514: the motion penalty and the return value
compareDTWReturn(refFeats, liveFeats, mirroredFrames, mirroredFeats, resultOriginal, resultMirrored, useMir, best, refMotion, liveMotion, penalisedScore) ==
  [insufficient |-> FALSE,
   refFeats |-> refFeats, liveFeats |-> liveFeats,
   mirroredFrames |-> mirroredFrames, mirroredFeats |-> mirroredFeats,
   originalScore |-> resultOriginal.score,
   mirroredScore |-> resultMirrored.score,
   refMotion |-> refMotion, liveMotion |-> liveMotion,
   rawScore |-> best.score,
   result |-> [score |-> penalisedScore,
               liveFeatureCount |-> Len(liveFeats),
               refFeatureCount |-> Len(refFeats),
               mirrored |-> useMir,
               \* motionRatio = refMotion > 0.01 ? liveMotion / refMotion : 1;
               \* lowMotion = motionRatio < 0.5
               lowMotion |-> IF 100 * refMotion > Unit
                             THEN 2 * liveMotion < refMotion
                             ELSE FALSE] @@ best]

compareDTWMotion(refFeats, liveFeats, mirroredFrames, mirroredFeats, resultOriginal, resultMirrored, useMir, best, refMotion, liveMotion) ==
  compareDTWReturn(refFeats, liveFeats, mirroredFrames, mirroredFeats,
                   resultOriginal, resultMirrored, useMir, best,
                   refMotion, liveMotion,
                   applyMotionPenalty(best.score, liveMotion, refMotion))

\* compareDTWBest that keeps the result of the original orientation
compareDTWBest_KeepsOriginal(refFeats, liveFeats, mirroredFrames, mirroredFeats, resultOriginal, resultMirrored, useMir) ==
  compareDTWMotion(refFeats, liveFeats, mirroredFrames, mirroredFeats,
                   resultOriginal, resultMirrored, useMir,
                   resultOriginal,
                   computeMotion(refFeats),
                   computeMotion(IF useMir THEN mirroredFeats ELSE liveFeats))

\* lines 491-497: the orientation, its result and the two motion energies
compareDTWBest(refFeats, liveFeats, mirroredFrames, mirroredFeats, resultOriginal, resultMirrored, useMir) ==
  compareDTWMotion(refFeats, liveFeats, mirroredFrames, mirroredFeats,
                   resultOriginal, resultMirrored, useMir,
                   IF useMir THEN resultMirrored ELSE resultOriginal,
                   computeMotion(refFeats),
                   computeMotion(IF useMir THEN mirroredFeats ELSE liveFeats))

compareDTWSelect(refFeats, liveFeats, mirroredFrames, mirroredFeats, resultOriginal, resultMirrored) ==
  compareDTWBest(refFeats, liveFeats, mirroredFrames, mirroredFeats,
                 resultOriginal, resultMirrored,
                 useMirrored(resultOriginal, resultMirrored))

\* compareDTWAlign with && for || in the early return
compareDTWAlign_BothShort(refFeats, liveFeats, mirroredFrames, mirroredFeats) ==
  IF Max2(Len(liveFeats), Len(mirroredFeats)) < 2 /\ Len(refFeats) < 2
  THEN [insufficient |-> TRUE,
        refFeats |-> refFeats, liveFeats |-> liveFeats,
        mirroredFrames |-> mirroredFrames, mirroredFeats |-> mirroredFeats,
        result |-> [score |-> 0, pathScores |-> <<>>, avgDistance |-> Infinity,
                    liveFeatureCount |-> Len(liveFeats),
                    refFeatureCount |-> Len(refFeats), mirrored |-> FALSE]]
  ELSE compareDTWSelect(refFeats, liveFeats, mirroredFrames, mirroredFeats,
                        IF Len(liveFeats) >= 2 THEN dtw(liveFeats, refFeats)
                        ELSE [score |-> 0],
                        IF Len(mirroredFeats) >= 2 THEN dtw(mirroredFeats, refFeats)
                        ELSE [score |-> 0])

\* lines 483-489: the early return and the two alignments
compareDTWAlign(refFeats, liveFeats, mirroredFrames, mirroredFeats) ==
  IF Max2(Len(liveFeats), Len(mirroredFeats)) < 2 \/ Len(refFeats) < 2
  THEN [insufficient |-> TRUE,
        refFeats |-> refFeats, liveFeats |-> liveFeats,
        mirroredFrames |-> mirroredFrames, mirroredFeats |-> mirroredFeats,
        result |-> [score |-> 0, pathScores |-> <<>>, avgDistance |-> Infinity,
                    liveFeatureCount |-> Len(liveFeats),
                    refFeatureCount |-> Len(refFeats), mirrored |-> FALSE]]
  ELSE compareDTWSelect(refFeats, liveFeats, mirroredFrames, mirroredFeats,
                        IF Len(liveFeats) >= 2 THEN dtw(liveFeats, refFeats)
                        ELSE [score |-> 0],
                        IF Len(mirroredFeats) >= 2 THEN dtw(mirroredFeats, refFeats)
                        ELSE [score |-> 0])

\* line 479: the features of the mirrored frames
compareDTWMirror(refFeats, liveFeats, mirroredFrames) ==
  compareDTWAlign(refFeats, liveFeats, mirroredFrames,
                  processLiveFrames(mirroredFrames))

\* compareDTWLocals with the hands of the reference exchanged as well
compareDTWLocals_MirrorsReference(liveFrames, refFrames) ==
  compareDTWMirror(processRefFrames([f \in 1..Len(refFrames) |->
                                       [refFrames[f] EXCEPT
                                          !.rightHand = refFrames[f].leftHand,
                                          !.leftHand = refFrames[f].rightHand]]),
                   processLiveFrames(liveFrames),
                   mirrorLiveFrames(liveFrames))

\* lines 474-479
compareDTWLocals(liveFrames, refFrames) ==
  compareDTWMirror(processRefFrames(refFrames), processLiveFrames(liveFrames),
                   mirrorLiveFrames(liveFrames))

compareDTW(liveFrames, refFrames) == compareDTWLocals(liveFrames, refFrames).result

\* What the caller's arrays hold when compareDTW returns.  processRefFrames
\* and processLiveFrames only read their argument; mirrorLiveFrames assigns
\* to mirroredPose[l] and mirroredPose[r] alone, and mirroredPose is the array
\* frame.pose.map() returned, so no element of the argument is written.

\* mirroredPose aliased to frame.pose: the joint swap lands in the argument
mirrorFrameArgument_SwapsInPlace(frame) ==
  IF frame.pose # NULL
  THEN [frame EXCEPT !.pose = SwapPairs(frame.pose, 1)]
  ELSE frame

\* the frame handed to the callback of mirrorLiveFrames, after the callback
mirrorFrameArgument(frame) == frame

\* liveFrames and refFrames after compareDTW(liveFrames, refFrames)
compareDTWArguments(liveFrames, refFrames) ==
  [liveFrames |-> [f \in 1..Len(liveFrames) |-> mirrorFrameArgument(liveFrames[f])],
   refFrames |-> refFrames]

----------------------------------------------------------------------------
\* Stars and feedback

\* lines 521-526
getStarRating(score) ==
  IF score >= 70 THEN 3
  ELSE IF score >= 61 THEN 2
  ELSE IF score >= 31 THEN 1
  ELSE 0

\* arr.slice(0, count)
SliceFirst(arr, count) == SubSeq(arr, 1, count)

\* arr.slice(-count); slice(-0) is slice(0), the whole array
SliceLast(arr, count) ==
  IF count = 0 THEN arr ELSE SubSeq(arr, Len(arr) - count + 1, Len(arr))

\* reduce(+) / length > reduce(+) / length + 10 for two slices; the average
\* of an empty slice is 0 / 0 = NaN, and no comparison with NaN is true
AvgExceedsBy10(sliceA, sliceB) ==
  /\ Len(sliceA) > 0
  /\ Len(sliceB) > 0
  /\ SumSeq(sliceA) * Len(sliceB)
       > SumSeq(sliceB) * Len(sliceA) + 10 * Len(sliceA) * Len(sliceB)

\* lines 554-568: the tips of the 61..85 tier
segmentTips(pathScores) ==
  IF Len(pathScores) > 0
  THEN LET firstThird == SliceFirst(pathScores, Len(pathScores) \div 3)
           lastThird == SliceLast(pathScores, Len(pathScores) \div 3)
       IN IF AvgExceedsBy10(firstThird, lastThird)
          THEN <<"Try watching the ending part once more.">>
          ELSE IF AvgExceedsBy10(lastThird, firstThird)
          THEN <<"Watch the beginning part once more.">>
          ELSE <<>>
  ELSE <<>>

\* scoreTips whose 61..85 tier pushes only the tip about a part of the sign
scoreTips_OnlySegment(score, pathScores) ==
  IF score >= 86 THEN <<"Amazing! Perfect sign!">>
  ELSE IF score >= 61 THEN segmentTips(pathScores)
  ELSE IF score >= 31
  THEN <<"Good try! You're getting closer.",
         "Try matching the speed and shape a little more.">>
  ELSE <<"Let's try again! Watch the video and copy the movements.">>

\* lines 552-575: the tips chosen by the score
scoreTips(score, pathScores) ==
  IF score >= 86 THEN <<"Amazing! Perfect sign!">>
  ELSE IF score >= 61
  THEN <<"Great signing! Almost perfect!">> \o segmentTips(pathScores)
  ELSE IF score >= 31
  THEN <<"Good try! You're getting closer.",
         "Try matching the speed and shape a little more.">>
  ELSE <<"Let's try again! Watch the video and copy the movements.">>

\* a property that may be missing from the result: undefined is falsy
Truthy(obj, field) == IF field \in DOMAIN obj THEN obj[field] ELSE FALSE

\* generateFeedback with the lowMotion test ahead of the liveFeatureCount test
generateFeedback_MotionFirst(dtwResult) ==
  IF Truthy(dtwResult, "lowMotion")
  THEN [tips |-> <<"Try moving your arms along with the video!",
                   "Watch the video again and copy the arm movements.">>]
  ELSE IF dtwResult.liveFeatureCount < 3
  THEN [tips |-> <<"Let's make sure your upper body is nice and visible. Try stepping back a little!">>]
  ELSE [tips |-> scoreTips(dtwResult.score, dtwResult.pathScores)]

\* lines 534-576
generateFeedback(dtwResult) ==
  IF dtwResult.liveFeatureCount < 3
  THEN [tips |-> <<"Let's make sure your upper body is nice and visible. Try stepping back a little!">>]
  ELSE IF Truthy(dtwResult, "lowMotion")
  THEN [tips |-> <<"Try moving your arms along with the video!",
                   "Watch the video again and copy the arm movements.">>]
  ELSE [tips |-> scoreTips(dtwResult.score, dtwResult.pathScores)]

----------------------------------------------------------------------------
\* Inputs: the frames the detector delivers and the stored references.
\* The body stands upright in the middle of the picture; every arm segment
\* points along one of the eight compass directions, so that all angles are
\* multiples of PI / 4 and are computed exactly.

Pt(x, y) == <<x, y>>

Add(p, d, len) == <<p[1] + len * d[1], p[2] + len * d[2]>>

Down == <<0, 1>>
Up == <<0, -1>>
West == <<-1, 0>>
East == <<1, 0>>
SouthWest == <<-1, 1>>

\* An arm is << direction of the upper arm, direction of the forearm >>.
ArmDown == <<Down, Down>>
ArmOutR == <<West, West>>
ArmUpR == <<West, Up>>
ArmDiagR == <<SouthWest, SouthWest>>
ArmUpL == <<East, Up>>

\* The eight upper-body joints (by name) of a body with the given arms
Body(rArm, lArm) ==
  LET lSh == Pt(640, 256)
      rSh == Pt(384, 256)
      lEl == Add(lSh, lArm[1], 128)
      rEl == Add(rSh, rArm[1], 128)
  IN [lShoulder |-> lSh, rShoulder |-> rSh, lElbow |-> lEl, rElbow |-> rEl,
      lWrist |-> Add(lEl, lArm[2], 128), rWrist |-> Add(rEl, rArm[2], 128),
      lHip |-> Pt(640, 512), rHip |-> Pt(384, 512)]

\* A 33-point MediaPipe pose (JavaScript index k - 1 at position k)
LivePose(rArm, lArm) ==
  LET b == Body(rArm, lArm)
  IN [k \in 1..33 |->
        CASE k = 12 -> b.lShoulder [] k = 13 -> b.rShoulder
          [] k = 14 -> b.lElbow    [] k = 15 -> b.rElbow
          [] k = 16 -> b.lWrist    [] k = 17 -> b.rWrist
          [] k = 24 -> b.lHip      [] k = 25 -> b.rHip
          [] OTHER -> Pt(512, 128)]

\* A compact 17-point reference pose
RefPose(rArm, lArm) ==
  LET b == Body(rArm, lArm)
  IN [k \in 1..17 |->
        CASE k = 5 -> b.lShoulder  [] k = 4 -> b.rShoulder
          [] k = 7 -> b.lElbow     [] k = 6 -> b.rElbow
          [] k = 9 -> b.lWrist     [] k = 8 -> b.rWrist
          [] k = 17 -> b.lHip      [] k = 16 -> b.rHip
          [] OTHER -> Pt(512, 128)]

\* A 21-point hand with every finger straight: finger f's joints lie on a
\* ray from the wrist (point 0).
FingerDirs == <<West, <<-1, -1>>, Up, <<1, -1>>, East>>

\* side is 1 for a right hand and -1 for its mirror image, a left hand
OpenHand(wrist, side) ==
  [k \in 1..21 |->
     IF k = 1 THEN wrist
     ELSE LET dir == FingerDirs[((k - 2) \div 4) + 1]
          IN Add(wrist, <<side * dir[1], dir[2]>>, 8 * (((k - 2) % 4) + 1))]

\* A face mesh of 478 points, by the landmarks the code reads
FaceIndexSet == {FACE_INDICES[f] : f \in DOMAIN FACE_INDICES}

NeutralFace ==
  << 478,
     [i \in FaceIndexSet |->
        CASE i = 10 -> Pt(512, 64)    [] i = 152 -> Pt(512, 192)
          [] i = 70 -> Pt(480, 96)    [] i = 300 -> Pt(544, 96)
          [] i = 33 -> Pt(480, 112)   [] i = 263 -> Pt(544, 112)
          [] i = 159 -> Pt(480, 108)  [] i = 145 -> Pt(480, 116)
          [] i = 386 -> Pt(544, 108)  [] i = 374 -> Pt(544, 116)
          [] i = 13 -> Pt(512, 160)   [] i = 14 -> Pt(512, 164)
          [] i = 61 -> Pt(496, 162)   [] i = 291 -> Pt(528, 162)] >>

Frame(pose, rightHand, leftHand, face) ==
  [pose |-> pose, rightHand |-> rightHand, leftHand |-> leftHand, face |-> face]

\* Frames the live detector can deliver
LiveRest == Frame(LivePose(ArmDown, ArmDown), NULL, NULL, NULL)
LiveOutR == Frame(LivePose(ArmOutR, ArmDown), NULL, NULL, NULL)
LiveUpR ==
  Frame(LivePose(ArmUpR, ArmDown), OpenHand(Body(ArmUpR, ArmDown).rWrist, 1), NULL, NULL)
LiveUpL ==
  Frame(LivePose(ArmDown, ArmUpL), NULL, OpenHand(Body(ArmDown, ArmUpL).lWrist, -1), NULL)
LiveDiagR == Frame(LivePose(ArmDiagR, ArmDown), NULL, NULL, NeutralFace)
LiveHandOnly == Frame(NULL, OpenHand(Pt(256, 512), 1), NULL, NULL)

LiveFrames == {LiveRest, LiveOutR, LiveUpR, LiveUpL, LiveDiagR, LiveHandOnly}

\* Frames of the stored references (no face is stored)
RefRest == Frame(RefPose(ArmDown, ArmDown), NULL, NULL, NULL)
RefOutR == Frame(RefPose(ArmOutR, ArmDown), NULL, NULL, NULL)
RefUpR ==
  Frame(RefPose(ArmUpR, ArmDown), OpenHand(Body(ArmUpR, ArmDown).rWrist, 1), NULL, NULL)

References ==
  { <<RefRest, RefOutR, RefUpR>>,
    <<RefRest, RefRest>>,
    <<RefRest, RefUpR>>,
    <<RefRest>> }

\* The longest live recording explored
MaxLive == 3

\* The slot values of the tracks handed to dtw, in 1/DistUnit: distances of
\* 2^-24 and of 1 meet in one cumulative cost.
TrackValues == {0, 1, DistUnit}

\* The longest track explored
MaxTrack == 3

\* Frames for the sequence builders: the right arm out to the west, across
\* to the east, down, and along the two western diagonals; a body so small
\* that its scale is just below 0.01 and one just above; a pose with too few
\* points; and no pose.
ArmEastR == <<East, East>>
ArmNorthWestR == << <<-1, -1>>, <<-1, -1>> >>

SequenceArms == {ArmDown, ArmOutR, ArmEastR, ArmDiagR, ArmNorthWestR}

\* A body whose shoulders are 10/1024 apart and whose torso is torsoH/1024 high
TinyBody(torsoH) ==
  [lShoulder |-> Pt(517, 256), rShoulder |-> Pt(507, 256),
   lElbow |-> Pt(517, 384), rElbow |-> Pt(507, 384),
   lWrist |-> Pt(517, 512), rWrist |-> Pt(507, 512),
   lHip |-> Pt(517, 256 + torsoH), rHip |-> Pt(507, 256 + torsoH)]

\* A pose of size points with the joints of body b at the indices upper
PoseAt(b, upper, size) ==
  LET joints == <<b.lShoulder, b.rShoulder, b.lElbow, b.rElbow,
                  b.lWrist, b.rWrist, b.lHip, b.rHip>>
  IN [k \in 1..size |->
        IF \E s \in 1..Len(upper) : upper[s] = k - 1
        THEN joints[CHOOSE s \in 1..Len(upper) : upper[s] = k - 1]
        ELSE Pt(512, 128)]

SequencePoses(upper, size) ==
  {PoseAt(Body(arm, ArmDown), upper, size) : arm \in SequenceArms}
    \cup {PoseAt(TinyBody(10), upper, size), PoseAt(TinyBody(11), upper, size),
          [k \in 1..16 |-> Pt(512 + 8 * k, 128 + 8 * k)], NULL}

SequenceFrames(live) ==
  {Frame(pose, NULL, NULL, NULL) :
     pose \in IF live THEN SequencePoses(LIVE_UPPER, 33) ELSE SequencePoses(REF_UPPER, 17)}

\* The longest sequence handed to a sequence builder
MaxSequence == 3

\* Results for generateFeedback: every score, live counts up to
\* MaxFeatureCount, and paths that are empty, shorter than 3, and of 3 and
\* more scores that rise, fall and stay level.
MaxFeatureCount == 4

FeedbackPaths ==
  {<<>>, <<70>>, <<90, 40>>, <<100, 70, 40>>, <<40, 70, 100>>, <<70, 70, 70>>,
   <<100, 60, 70, 50>>}

\* Distances handed to distToScore, in 1/DistUnit: 0, the smallest positive
\* one, the last distance of every tenth score and the first of the score
\* below it, and distances of 2 and of 5
SampleDistances ==
  {0, 1, 2 * DistUnit, 5 * DistUnit}
    \cup {ScoreThresholds[k] : k \in {1} \cup {10 * t : t \in 1..10}}
    \cup {ScoreThresholds[k] + 1 : k \in {1} \cup {10 * t : t \in 1..10}}

\* Vectors handed to featureDistance: what the feature extraction produces
\* for one and for two frames, the all-zero vector and the empty vector.
SampleVectors ==
  {Zeros(FIXED_VECTOR_LENGTH), <<>>}
    \cup UNION {{processLiveFrames(<<f, g>>)[k] : k \in 1..Len(processLiveFrames(<<f, g>>))}
                 : f \in LiveFrames, g \in LiveFrames}

----------------------------------------------------------------------------
\* The state machine: a caller records live frames and then scores them.

VARIABLES
  refFrames,   \* refData.frames, the stored reference
  recorded,    \* recordedFramesRef.current, the live recording
  pc,          \* "recording" until compareDTW has been called, then "scored",
               \* "other" after a call on another attempt, "rescored" at the end
  dtwResult,   \* the value compareDTW returned
  locals,      \* the locals of that compareDTW call, as logged
  trackA,      \* seqA of a call of dtw, as a track of one-slot vectors
  trackB,      \* seqB of that call
  fnPc,        \* "input" until the function under study was called, then "done"
  fnOut,       \* what the function under study computed, with its arguments
  visited,     \* the indexes the loop of a sequence builder has been through
  useSupabase, \* supabaseClient.js: both environment variables are set
  supaWords,   \* the rows of the Supabase table 'words'
  supaVideos,  \* the ids with a file in the Supabase bucket 'videos'
  idbWords,    \* the records of the IndexedDB store 'words'
  storeOut,    \* the last call of the storage layer and how it settled
  phase,       \* MagicMirror: the phase of the last committed render
  refData,     \* the reference-data load: "loaded" once setRefData ran
  flushed,     \* the effects of the last committed render have run
  effectPhase, \* the phase the effects in force were created for
  video,       \* the demonstration video: "stopped", "playing" or "ended"
  endTimer,    \* the 600 ms timeout of the video's ended handler is pending
  countdown,   \* the countdown shown
  countdownInterval, \* the interval of the COUNTDOWN effect is set
  practiceTimeout    \* the timeout of the PRACTICE effect is pending

engineVars == <<refFrames, recorded, pc, dtwResult, locals>>

fnVars == <<trackA, trackB, fnPc, fnOut, visited>>

storeVars == <<useSupabase, supaWords, supaVideos, idbWords, storeOut>>

mirrorVars == <<phase, refData, flushed, effectPhase, video, endTimer, countdown, countdownInterval, practiceTimeout>>

vars == <<engineVars, fnVars, storeVars, mirrorVars>>

NoResult == [score |-> -1]

NoCall == [fn |-> "none"]

\* no call of the storage layer yet
NoStoreCall == [op |-> "none"]

\* the storage layer is not used
StoreIdle ==
  /\ useSupabase = FALSE
  /\ supaWords = {}
  /\ supaVideos = {}
  /\ idbWords = {}
  /\ storeOut = NoStoreCall

\* no MagicMirror component is mounted
MirrorIdle ==
  /\ phase = "none"
  /\ refData = "absent"
  /\ flushed = TRUE
  /\ effectPhase = "none"
  /\ video = "stopped"
  /\ endTimer = FALSE
  /\ countdown = 0
  /\ countdownInterval = FALSE
  /\ practiceTimeout = FALSE

\* the frames of another attempt
OtherAttempt == <<LiveUpR, LiveRest, LiveOutR>>

Init ==
  /\ refFrames \in References
  /\ recorded = <<>>
  /\ pc = "recording"
  /\ dtwResult = NoResult
  /\ locals = [insufficient |-> TRUE]
  /\ trackA = <<>>
  /\ trackB = <<>>
  /\ fnPc = "idle"
  /\ fnOut = NoCall
  /\ visited = <<>>
  /\ StoreIdle
  /\ MirrorIdle

\* The detector delivers a frame and the caller appends it to the recording.
RecordFrame ==
  /\ pc = "recording"
  /\ Len(recorded) < MaxLive
  /\ \E frame \in LiveFrames : recorded' = Append(recorded, frame)
  /\ UNCHANGED <<refFrames, pc, dtwResult, locals>>
  /\ UNCHANGED fnVars
  /\ UNCHANGED <<storeVars, mirrorVars>>

\* The caller hands the recording and the reference to compareDTW.
Score ==
  /\ pc = "recording"
  /\ locals' = compareDTWLocals(recorded, refFrames)
  /\ dtwResult' = locals'.result
  /\ pc' = "scored"
  /\ recorded' = compareDTWArguments(recorded, refFrames).liveFrames
  /\ refFrames' = compareDTWArguments(recorded, refFrames).refFrames
  /\ UNCHANGED fnVars
  /\ UNCHANGED <<storeVars, mirrorVars>>

\* A second attempt is scored: a call of compareDTW on other frames, between
\* two calls on the recording.  The module has no binding a call assigns
\* (lines 32-347 declare constants only), so the call leaves its result.
ScoreOther ==
  /\ pc = "scored"
  /\ Len(recorded) < MaxLive
  /\ dtwResult' = compareDTW(OtherAttempt, refFrames)
  /\ pc' = "other"
  /\ UNCHANGED <<refFrames, recorded, locals>>
  /\ UNCHANGED fnVars
  /\ UNCHANGED <<storeVars, mirrorVars>>

\* The recording is scored once more.
Rescore ==
  /\ pc = "other"
  /\ dtwResult' = compareDTW(recorded, refFrames)
  /\ pc' = "rescored"
  /\ recorded' = compareDTWArguments(recorded, refFrames).liveFrames
  /\ refFrames' = compareDTWArguments(recorded, refFrames).refFrames
  /\ UNCHANGED locals
  /\ UNCHANGED fnVars
  /\ UNCHANGED <<storeVars, mirrorVars>>

Next == RecordFrame \/ Score \/ ScoreOther \/ Rescore

Spec == Init /\ [][Next]_vars

----------------------------------------------------------------------------
\* The functions of the module one at a time: dtw on two tracks and
\* featureDistance on two vectors.

InitFn ==
  /\ refFrames = <<>>
  /\ recorded = <<>>
  /\ pc = "idle"
  /\ dtwResult = NoResult
  /\ locals = [insufficient |-> TRUE]
  /\ trackA = <<>>
  /\ trackB = <<>>
  /\ fnPc = "input"
  /\ fnOut = NoCall
  /\ visited = <<>>
  /\ StoreIdle
  /\ MirrorIdle

\* seqA grows by one vector
ExtendA ==
  /\ fnPc = "input"
  /\ Len(trackA) < MaxTrack
  /\ \E v \in TrackValues : trackA' = Append(trackA, v)
  /\ UNCHANGED <<trackB, fnPc, fnOut, visited>>
  /\ UNCHANGED engineVars
  /\ UNCHANGED <<storeVars, mirrorVars>>

\* seqB grows by one vector
ExtendB ==
  /\ fnPc = "input"
  /\ Len(trackB) < MaxTrack
  /\ \E v \in TrackValues : trackB' = Append(trackB, v)
  /\ UNCHANGED <<trackA, fnPc, fnOut, visited>>
  /\ UNCHANGED engineVars
  /\ UNCHANGED <<storeVars, mirrorVars>>

\* dtw(seqA, seqB)
CallDtw ==
  /\ fnPc = "input"
  /\ fnOut' = [fn |-> "dtw"]
                @@ dtwFromMatrix(Len(trackA), Len(trackB), TrackMatrix(trackA, trackB))
  /\ fnPc' = "done"
  /\ UNCHANGED <<trackA, trackB, visited>>
  /\ UNCHANGED engineVars
  /\ UNCHANGED <<storeVars, mirrorVars>>

\* featureDistance(vecA, vecB)
CallFeatureDistance ==
  /\ fnPc = "input"
  /\ trackA = <<>>
  /\ trackB = <<>>
  /\ \E vecA \in SampleVectors, vecB \in SampleVectors :
       fnOut' = [fn |-> "featureDistance", vecA |-> vecA, vecB |-> vecB,
                 dist |-> featureDistance(vecA, vecB)]
  /\ fnPc' = "done"
  /\ UNCHANGED <<trackA, trackB, visited>>
  /\ UNCHANGED engineVars
  /\ UNCHANGED <<storeVars, mirrorVars>>

\* processLiveFrames(frames) and processRefFrames(frames) on two frames: a
\* first frame and a frame with each combination of hands and face (a stored
\* reference frame has no face)
CallProcessFrames ==
  /\ fnPc = "input"
  /\ trackA = <<>>
  /\ trackB = <<>>
  /\ \E live \in BOOLEAN, first \in {LiveRest, LiveHandOnly, RefRest}, rArm \in {ArmDown, ArmUpR}, right \in BOOLEAN, left \in BOOLEAN, face \in BOOLEAN :
       /\ live <=> first \in LiveFrames
       /\ face => live
       /\ LET joints == Body(rArm, ArmDown)
              frame == Frame(IF live THEN LivePose(rArm, ArmDown)
                             ELSE RefPose(rArm, ArmDown),
                             IF right THEN OpenHand(joints.rWrist, 1) ELSE NULL,
                             IF left THEN OpenHand(joints.lWrist, -1) ELSE NULL,
                             IF face THEN NeutralFace ELSE NULL)
          IN fnOut' = [fn |-> "processFrames", live |-> live,
                       frames |-> <<first, frame>>,
                       features |-> IF live THEN processLiveFrames(<<first, frame>>)
                                    ELSE processRefFrames(<<first, frame>>)]
  /\ fnPc' = "done"
  /\ UNCHANGED <<trackA, trackB, visited>>
  /\ UNCHANGED engineVars
  /\ UNCHANGED <<storeVars, mirrorVars>>

\* processLiveFrames(frames) and processRefFrames(frames) on sequences with
\* frames that are dropped
CallProcessSequence ==
  /\ fnPc = "input"
  /\ trackA = <<>>
  /\ trackB = <<>>
  /\ \E live \in BOOLEAN, n \in 0..MaxSequence :
       \E frames \in [1..n -> SequenceFrames(live)] :
          fnOut' = [fn |-> "processSequence", live |-> live, frames |-> frames,
                    features |-> IF live THEN processLiveFrames(frames)
                                 ELSE processRefFrames(frames)]
  /\ fnPc' = "done"
  /\ UNCHANGED <<trackA, trackB, visited>>
  /\ UNCHANGED engineVars
  /\ UNCHANGED <<storeVars, mirrorVars>>

\* distToScore(dist), for two distances
CallDistToScore ==
  /\ fnPc = "input"
  /\ trackA = <<>>
  /\ trackB = <<>>
  /\ \E distA \in SampleDistances, distB \in SampleDistances :
       fnOut' = [fn |-> "distToScore", distA |-> distA, distB |-> distB,
                 scoreA |-> distToScore(distA), scoreB |-> distToScore(distB)]
  /\ fnPc' = "done"
  /\ UNCHANGED <<trackA, trackB, visited>>
  /\ UNCHANGED engineVars
  /\ UNCHANGED <<storeVars, mirrorVars>>

\* getStarRating(score)
CallGetStarRating ==
  /\ fnPc = "input"
  /\ trackA = <<>>
  /\ trackB = <<>>
  /\ \E score \in 0..100 :
       fnOut' = [fn |-> "getStarRating", score |-> score,
                 stars |-> getStarRating(score)]
  /\ fnPc' = "done"
  /\ UNCHANGED <<trackA, trackB, visited>>
  /\ UNCHANGED engineVars
  /\ UNCHANGED <<storeVars, mirrorVars>>

\* generateFeedback(dtwResult), on a result of either shape compareDTW
\* returns: the aligned one, and the placeholder, which has no lowMotion
CallGenerateFeedback ==
  /\ fnPc = "input"
  /\ trackA = <<>>
  /\ trackB = <<>>
  /\ \E score \in 0..100, pathScores \in FeedbackPaths, count \in 0..MaxFeatureCount, aligned \in BOOLEAN, lowMotion \in BOOLEAN :
       LET result == IF aligned
                     THEN [score |-> score, pathScores |-> pathScores,
                           liveFeatureCount |-> count, lowMotion |-> lowMotion]
                     ELSE [score |-> score, pathScores |-> pathScores,
                           liveFeatureCount |-> count]
       IN fnOut' = [fn |-> "generateFeedback", dtwResult |-> result,
                    tips |-> generateFeedback(result).tips]
  /\ fnPc' = "done"
  /\ UNCHANGED <<trackA, trackB, visited>>
  /\ UNCHANGED engineVars
  /\ UNCHANGED <<storeVars, mirrorVars>>

NextFn == ExtendA \/ ExtendB \/ CallDtw \/ CallFeatureDistance \/ CallProcessFrames \/ CallProcessSequence \/ CallDistToScore \/ CallGetStarRating \/ CallGenerateFeedback

SpecFn == InitFn /\ [][NextFn]_vars

----------------------------------------------------------------------------
\* The storage layer for user-added words.  A word is its id and whether it
\* carries a video; a table is a set of words with one word per id.  Every
\* backend operation returns whether its promise resolved (ok), the value it
\* resolved with as a set of words (null and undefined are the empty set),
\* and the tables as it leaves them.

Ids == {1, 2}

Words == [id : Ids, video : BOOLEAN]

Put(table, word) == {w \in table : w.id # word.id} \cup {word}

Remove(table, id) == {w \in table : w.id # id}

\* openDB rejects, or the request fires onerror, when idbFault
idbGetAllWords(idb, idbFault) ==
  [ok |-> ~idbFault, value |-> IF idbFault THEN {} ELSE idb, idbWords |-> idb]

idbGetWord(idb, id, idbFault) ==
  [ok |-> ~idbFault,
   value |-> IF idbFault THEN {} ELSE {w \in idb : w.id = id},
   idbWords |-> idb]

idbSaveWord(idb, word, idbFault) ==
  [ok |-> ~idbFault,
   value |-> IF idbFault THEN {} ELSE {word},
   idbWords |-> IF idbFault THEN idb ELSE Put(idb, word)]

idbDeleteWord(idb, id, idbFault) ==
  [ok |-> ~idbFault, value |-> {},
   idbWords |-> IF idbFault THEN idb ELSE Remove(idb, id)]

\* if (error) throw error, when the query on the table fails
supaGetAllWords(rows, files, tableFault) ==
  [ok |-> ~tableFault, value |-> IF tableFault THEN {} ELSE rows,
   supaWords |-> rows, supaVideos |-> files]

\* .single() reports an error as well when no row has the id
supaGetWord(rows, files, id, tableFault) ==
  [ok |-> ~tableFault /\ \E w \in rows : w.id = id,
   value |-> IF tableFault THEN {} ELSE {w \in rows : w.id = id},
   supaWords |-> rows, supaVideos |-> files]

\* the upload of the video first (if (vErr) throw vErr), then the upsert
supaSaveWord(rows, files, word, storageFault, tableFault) ==
  IF word.video /\ storageFault
  THEN [ok |-> FALSE, value |-> {}, supaWords |-> rows, supaVideos |-> files]
  ELSE IF tableFault
  THEN [ok |-> FALSE, value |-> {}, supaWords |-> rows,
        supaVideos |-> IF word.video THEN files \cup {word.id} ELSE files]
  ELSE [ok |-> TRUE, value |-> {word}, supaWords |-> Put(rows, word),
        supaVideos |-> IF word.video THEN files \cup {word.id} ELSE files]

\* the file is removed first and the outcome of that is not looked at
supaDeleteWord(rows, files, id, storageFault, tableFault) ==
  [ok |-> ~tableFault, value |-> {},
   supaWords |-> IF tableFault THEN rows ELSE Remove(rows, id),
   supaVideos |-> IF storageFault THEN files ELSE files \ {id}]

\* The body shared by the four public functions with the catch left out:
\* the failure of Supabase is the failure of the call.
withFallback_Rethrows(configured, rows, files, idb, supa, local) ==
  IF configured
  THEN [ok |-> supa.ok, value |-> supa.value, calls |-> <<"supabase">>,
        supaWords |-> supa.supaWords, supaVideos |-> supa.supaVideos,
        idbWords |-> idb]
  ELSE [ok |-> local.ok, value |-> local.value, calls |-> <<"indexeddb">>,
        supaWords |-> rows, supaVideos |-> files, idbWords |-> local.idbWords]

\* if (useSupabase) { try { return await supa...; } catch (e) { warn } }
\* return idb...;   supa and local are the two backend operations, of which
\* the second runs only when the first was not taken or threw.
withFallback(configured, rows, files, idb, supa, local) ==
  IF configured /\ supa.ok
  THEN [ok |-> TRUE, value |-> supa.value, calls |-> <<"supabase">>,
        supaWords |-> supa.supaWords, supaVideos |-> supa.supaVideos,
        idbWords |-> idb]
  ELSE IF configured
  THEN [ok |-> local.ok, value |-> local.value,
        calls |-> <<"supabase", "indexeddb">>,
        supaWords |-> supa.supaWords, supaVideos |-> supa.supaVideos,
        idbWords |-> local.idbWords]
  ELSE [ok |-> local.ok, value |-> local.value, calls |-> <<"indexeddb">>,
        supaWords |-> rows, supaVideos |-> files, idbWords |-> local.idbWords]

getAllWords(configured, rows, files, idb, storageFault, tableFault, idbFault) ==
  withFallback(configured, rows, files, idb,
               supaGetAllWords(rows, files, tableFault),
               idbGetAllWords(idb, idbFault))

getWord(configured, rows, files, idb, id, storageFault, tableFault, idbFault) ==
  withFallback(configured, rows, files, idb,
               supaGetWord(rows, files, id, tableFault),
               idbGetWord(idb, id, idbFault))

saveWord(configured, rows, files, idb, word, storageFault, tableFault, idbFault) ==
  withFallback(configured, rows, files, idb,
               supaSaveWord(rows, files, word, storageFault, tableFault),
               idbSaveWord(idb, word, idbFault))

deleteWord(configured, rows, files, idb, id, storageFault, tableFault, idbFault) ==
  withFallback(configured, rows, files, idb,
               supaDeleteWord(rows, files, id, storageFault, tableFault),
               idbDeleteWord(idb, id, idbFault))

\* The application starts with empty stores, with or without the two
\* environment variables of Supabase.
InitStore ==
  /\ refFrames = <<>>
  /\ recorded = <<>>
  /\ pc = "idle"
  /\ dtwResult = NoResult
  /\ locals = [insufficient |-> TRUE]
  /\ trackA = <<>>
  /\ trackB = <<>>
  /\ fnPc = "idle"
  /\ fnOut = NoCall
  /\ visited = <<>>
  /\ useSupabase \in BOOLEAN
  /\ supaWords = {}
  /\ supaVideos = {}
  /\ idbWords = {}
  /\ storeOut = NoStoreCall
  /\ MirrorIdle

\* A call has settled with outcome out: the tables are as it left them.
Settle(op, word, storageFault, tableFault, idbFault, out) ==
  /\ supaWords' = out.supaWords
  /\ supaVideos' = out.supaVideos
  /\ idbWords' = out.idbWords
  /\ storeOut' = [op |-> op, word |-> word,
                  storageFault |-> storageFault, tableFault |-> tableFault,
                  idbFault |-> idbFault,
                  ok |-> out.ok, value |-> out.value, calls |-> out.calls]
  /\ UNCHANGED useSupabase
  /\ UNCHANGED <<engineVars, fnVars, mirrorVars>>

CallGetAllWords ==
  \E storageFault \in BOOLEAN, tableFault \in BOOLEAN, idbFault \in BOOLEAN :
    Settle("getAllWords", [id |-> 1, video |-> FALSE],
           storageFault, tableFault, idbFault,
           getAllWords(useSupabase, supaWords, supaVideos, idbWords,
                       storageFault, tableFault, idbFault))

CallGetWord ==
  \E id \in Ids, storageFault \in BOOLEAN, tableFault \in BOOLEAN, idbFault \in BOOLEAN :
    Settle("getWord", [id |-> id, video |-> FALSE],
           storageFault, tableFault, idbFault,
           getWord(useSupabase, supaWords, supaVideos, idbWords, id,
                   storageFault, tableFault, idbFault))

CallSaveWord ==
  \E word \in Words, storageFault \in BOOLEAN, tableFault \in BOOLEAN, idbFault \in BOOLEAN :
    Settle("saveWord", word, storageFault, tableFault, idbFault,
           saveWord(useSupabase, supaWords, supaVideos, idbWords, word,
                    storageFault, tableFault, idbFault))

CallDeleteWord ==
  \E id \in Ids, storageFault \in BOOLEAN, tableFault \in BOOLEAN, idbFault \in BOOLEAN :
    Settle("deleteWord", [id |-> id, video |-> FALSE],
           storageFault, tableFault, idbFault,
           deleteWord(useSupabase, supaWords, supaVideos, idbWords, id,
                      storageFault, tableFault, idbFault))

NextStore == CallGetAllWords \/ CallGetWord \/ CallSaveWord \/ CallDeleteWord

SpecStore == InitStore /\ [][NextStore]_vars

----------------------------------------------------------------------------
\* The MagicMirror component.  A setter of the phase or of the reference
\* data commits a render; the effects of that render run later, in their
\* own step (FlushEffects), and until then the timers, listeners and the
\* render loop that the effects of the render before created stay in force.
\* React runs the pending effects before it renders again, so a handler that
\* sets state waits for them; the render loop sets no state and does not.
\* compareDTW runs inside the SCORING effect; while pc = "compareDTW" the
\* one thread of the page is inside that call and no other handler runs.

MaxRecorded == 3

\* what the detector can deliver in a frame of the render loop
MirrorFrames == {LiveRest, LiveUpR}

\* refData.frames of the word
MirrorReferences == {<<RefRest, RefOutR, RefUpR>>, <<RefRest, RefUpR>>}

\* the render loop that records during the countdown as well
recordsFrame_FromCountdown(closurePhase) ==
  closurePhase \in {"COUNTDOWN", "PRACTICE"}

\* if (phase === PHASE.PRACTICE), on the phase the render loop closed over
recordsFrame(closurePhase) == closurePhase = "PRACTICE"

\* if (phase !== PHASE.PRACTICE && phase !== PHASE.COUNTDOWN) return;
loopRuns(closurePhase) == closurePhase \in {"COUNTDOWN", "PRACTICE"}

\* After mount: the word came with its reference data, or the data are being
\* fetched, or the word names neither.
InitMirror ==
  /\ refFrames \in MirrorReferences
  /\ recorded = <<>>
  /\ pc = "idle"
  /\ dtwResult = NoResult
  /\ locals = [insufficient |-> TRUE]
  /\ trackA = <<>>
  /\ trackB = <<>>
  /\ fnPc = "idle"
  /\ fnOut = NoCall
  /\ visited = <<>>
  /\ StoreIdle
  /\ phase = "SELECT"
  /\ refData \in {"loaded", "pending", "absent"}
  /\ flushed = TRUE
  /\ effectPhase = "SELECT"
  /\ video = "stopped"
  /\ endTimer = FALSE
  /\ countdown = 3
  /\ countdownInterval = FALSE
  /\ practiceTimeout = FALSE

\* setPhase(next): the render with the new phase is committed
Commit(next) ==
  /\ phase' = next
  /\ flushed' = FALSE

\* .then(setRefData)
LoadResolves ==
  /\ pc = "idle" /\ flushed
  /\ refData = "pending"
  /\ refData' = "loaded"
  /\ flushed' = FALSE
  /\ UNCHANGED <<phase, effectPhase, video, endTimer, countdown, countdownInterval, practiceTimeout>>
  /\ UNCHANGED <<engineVars, fnVars, storeVars>>

\* .catch((e) => console.error(...)): refData stays null
LoadFails ==
  /\ pc = "idle"
  /\ refData = "pending"
  /\ refData' = "failed"
  /\ UNCHANGED <<phase, flushed, effectPhase, video, endTimer, countdown, countdownInterval, practiceTimeout>>
  /\ UNCHANGED <<engineVars, fnVars, storeVars>>

\* START
startWatch ==
  /\ pc = "idle" /\ flushed
  /\ phase = "SELECT"
  /\ Commit("WATCH")
  /\ UNCHANGED <<refData, effectPhase, video, endTimer, countdown, countdownInterval, practiceTimeout>>
  /\ UNCHANGED <<engineVars, fnVars, storeVars>>

\* TRY AGAIN
retry ==
  /\ pc = "idle" /\ flushed
  /\ phase = "FEEDBACK"
  /\ dtwResult' = NoResult
  /\ recorded' = <<>>
  /\ Commit("WATCH")
  /\ UNCHANGED <<refFrames, pc, locals>>
  /\ UNCHANGED <<refData, effectPhase, video, endTimer, countdown, countdownInterval, practiceTimeout>>
  /\ UNCHANGED <<fnVars, storeVars>>

\* MENU, without onBack
backToMenu ==
  /\ pc = "idle" /\ flushed
  /\ phase = "FEEDBACK"
  /\ dtwResult' = NoResult
  /\ recorded' = <<>>
  /\ Commit("SELECT")
  /\ UNCHANGED <<refFrames, pc, locals>>
  /\ UNCHANGED <<refData, effectPhase, video, endTimer, countdown, countdownInterval, practiceTimeout>>
  /\ UNCHANGED <<fnVars, storeVars>>

\* The cleanups of the effects whose dependencies changed, then the effects
\* of the committed render: WATCH, COUNTDOWN (dependency: phase), PRACTICE,
\* SCORING and the canvas effect (dependencies: phase, refData).  The
\* SCORING effect ends here for a recording of fewer than 3 frames and
\* otherwise enters compareDTW.
FlushEffects ==
  /\ pc = "idle" /\ ~flushed
  /\ effectPhase' = phase
  /\ video' = IF effectPhase = phase THEN video
              ELSE IF phase = "WATCH" THEN "playing" ELSE "stopped"
  /\ countdown' = IF effectPhase # phase /\ phase = "COUNTDOWN" THEN 3 ELSE countdown
  /\ countdownInterval' = IF effectPhase = phase THEN countdownInterval
                          ELSE phase = "COUNTDOWN"
  /\ practiceTimeout' = (phase = "PRACTICE" /\ refData = "loaded")
  /\ IF phase = "SCORING" /\ refData = "loaded"
     THEN IF Len(recorded) < 3
          THEN /\ dtwResult' = [score |-> 0]
               /\ Commit("FEEDBACK")
               /\ UNCHANGED <<pc, recorded>>
          ELSE /\ pc' = "compareDTW"
               /\ flushed' = TRUE
               /\ UNCHANGED <<phase, dtwResult, recorded>>
     ELSE /\ recorded' = IF effectPhase # phase /\ phase = "COUNTDOWN"
                         THEN <<>> ELSE recorded
          /\ flushed' = TRUE
          /\ UNCHANGED <<phase, pc, dtwResult>>
  /\ UNCHANGED <<refFrames, locals, refData, endTimer>>
  /\ UNCHANGED <<fnVars, storeVars>>

\* compareDTW(recorded, refData.frames) returns and the effect sets the
\* score and the phase
CompareReturns ==
  /\ pc = "compareDTW"
  /\ dtwResult' = compareDTW(recorded, refFrames)
  /\ pc' = "idle"
  /\ Commit("FEEDBACK")
  /\ UNCHANGED <<refFrames, recorded, locals>>
  /\ UNCHANGED <<refData, effectPhase, video, endTimer, countdown, countdownInterval, practiceTimeout>>
  /\ UNCHANGED <<fnVars, storeVars>>

\* the video fires 'ended': onEnd sets the timeout of 600 ms
VideoEnds ==
  /\ pc = "idle"
  /\ video = "playing"
  /\ video' = "ended"
  /\ endTimer' = TRUE
  /\ UNCHANGED <<phase, refData, flushed, effectPhase, countdown, countdownInterval, practiceTimeout>>
  /\ UNCHANGED <<engineVars, fnVars, storeVars>>

\* setTimeout(() => setPhase(PHASE.COUNTDOWN), 600)
EndTimerFires ==
  /\ pc = "idle" /\ flushed
  /\ endTimer
  /\ endTimer' = FALSE
  /\ Commit("COUNTDOWN")
  /\ UNCHANGED <<refData, effectPhase, video, countdown, countdownInterval, practiceTimeout>>
  /\ UNCHANGED <<engineVars, fnVars, storeVars>>

\* the interval of the countdown, every second
CountdownTick ==
  /\ pc = "idle" /\ flushed
  /\ countdownInterval
  /\ IF countdown <= 1
     THEN /\ countdownInterval' = FALSE
          /\ countdown' = 0
          /\ Commit("PRACTICE")
     ELSE /\ countdown' = countdown - 1
          /\ UNCHANGED <<countdownInterval, phase, flushed>>
  /\ UNCHANGED <<refData, effectPhase, video, endTimer, practiceTimeout>>
  /\ UNCHANGED <<engineVars, fnVars, storeVars>>

\* the timeout of the PRACTICE effect, after refData.duration + 0.8 s
PracticeTimeoutFires ==
  /\ pc = "idle" /\ flushed
  /\ practiceTimeout
  /\ practiceTimeout' = FALSE
  /\ Commit("SCORING")
  /\ UNCHANGED <<refData, effectPhase, video, endTimer, countdown, countdownInterval>>
  /\ UNCHANGED <<engineVars, fnVars, storeVars>>

\* A frame of the render loop in which the detector found the user and 100 ms
\* have passed since the last recorded frame.
DrawFrame ==
  /\ pc = "idle"
  /\ loopRuns(effectPhase)
  /\ recordsFrame(effectPhase)
  /\ Len(recorded) < MaxRecorded
  /\ \E frame \in MirrorFrames : recorded' = Append(recorded, frame)
  /\ UNCHANGED <<refFrames, pc, dtwResult, locals>>
  /\ UNCHANGED <<fnVars, storeVars, mirrorVars>>

NextMirror == LoadResolves \/ LoadFails \/ startWatch \/ retry \/ backToMenu \/ FlushEffects \/ CompareReturns \/ VideoEnds \/ EndTimerFires \/ CountdownTick \/ PracticeTimeoutFires \/ DrawFrame

\* the step CompareReturns, told by pc alone
CompareReturnsStep == pc = "compareDTW" /\ pc' = "idle"

\* The browser runs every pending effect, timer and event in the end, a call
\* of compareDTW returns (C21) and the fetch settles one way or the other;
\* the user presses nothing unless they want to, and the detector need not
\* find anybody.
SpecMirror ==
  /\ InitMirror
  /\ [][NextMirror]_vars
  /\ WF_vars(FlushEffects)
  /\ WF_pc(CompareReturnsStep)
  /\ WF_vars(VideoEnds)
  /\ WF_vars(EndTimerFires)
  /\ WF_vars(CountdownTick)
  /\ WF_vars(PracticeTimeoutFires)
  /\ WF_vars(LoadResolves \/ LoadFails)

----------------------------------------------------------------------------
\* The loops of a compareDTW call one iteration at a time: the loop of a
\* sequence builder (processLiveFrames, processRefFrames), the two wrap
\* loops of the velocity in extractFeatures, and the backtrace of dtw.
\* fnPc names the loop that runs, fnOut holds its locals.

\* The longest sequence of the builder loop and the longest track of the
\* backtrace
MaxLoopFrames == 2

MaxLoopTrack == 3

\* arm angles as Math.atan2 returns them, in steps of pi / 4
LoopAngles == {k * PI4 : k \in -4..4}

LoopTracks == UNION {[1..n -> TrackValues] : n \in 1..MaxLoopTrack}

\* the locals of dtw when the backtrace begins: let i = n - 1, j = m - 1
BacktraceLocals(seqA, seqB) ==
  [fn |-> "backtrace",
   cost |-> CostRows(TrackMatrix(seqA, seqB), <<>>),
   i |-> Len(seqA) - 1, j |-> Len(seqB) - 1,
   path |-> << <<Len(seqA) - 1, Len(seqB) - 1>> >>]

InitLoop ==
  /\ refFrames = <<>>
  /\ recorded = <<>>
  /\ pc = "idle"
  /\ dtwResult = NoResult
  /\ locals = [insufficient |-> TRUE]
  /\ StoreIdle
  /\ MirrorIdle
  /\ visited = <<>>
  /\ \/ /\ fnPc = "builder"
        /\ trackA = <<>> /\ trackB = <<>>
        /\ \E live \in BOOLEAN, n \in 0..MaxLoopFrames :
             \E frames \in [1..n -> SequenceFrames(live)] :
                fnOut = [fn |-> "builder", live |-> live, frames |-> frames,
                         k |-> 1, features |-> <<>>, prevAngles |-> NULL]
     \/ /\ fnPc = "wrapDown"
        /\ trackA = <<>> /\ trackB = <<>>
        /\ \E ang \in LoopAngles, prev \in LoopAngles :
             fnOut = [fn |-> "wrap", ang |-> ang, prev |-> prev, diff |-> ang - prev]
     \/ /\ fnPc = "backtrace"
        /\ trackA \in LoopTracks
        /\ trackB \in LoopTracks
        /\ fnOut = BacktraceLocals(trackA, trackB)

\* one turn of for (const frame of frames), lines 428-439 and 449-460
BuilderStep ==
  /\ fnPc = "builder"
  /\ fnOut.k <= Len(fnOut.frames)
  /\ LET feat == featuresOfFrame(fnOut.frames[fnOut.k],
                                 IF fnOut.live THEN LIVE_UPPER ELSE REF_UPPER,
                                 IF fnOut.live THEN 25 ELSE 17,
                                 fnOut.prevAngles)
     IN fnOut' = [fnOut EXCEPT
                    !.k = @ + 1,
                    !.features = IF feat = NULL THEN @ ELSE Append(@, feat.vector),
                    !.prevAngles = IF feat = NULL THEN @ ELSE feat.armAngles]
  /\ visited' = Append(visited, fnOut.k)
  /\ UNCHANGED <<trackA, trackB, fnPc>>
  /\ UNCHANGED <<engineVars, storeVars, mirrorVars>>

\* the iterator is exhausted: return features
BuilderEnds ==
  /\ fnPc = "builder"
  /\ fnOut.k > Len(fnOut.frames)
  /\ fnPc' = "done"
  /\ UNCHANGED <<trackA, trackB, fnOut, visited>>
  /\ UNCHANGED <<engineVars, storeVars, mirrorVars>>

\* while (diff > Math.PI) diff -= 2 * Math.PI;
WrapDownStep ==
  /\ fnPc = "wrapDown"
  /\ fnOut.diff > PI
  /\ fnOut' = [fnOut EXCEPT !.diff = @ - 2 * PI]
  /\ UNCHANGED <<trackA, trackB, fnPc, visited>>
  /\ UNCHANGED <<engineVars, storeVars, mirrorVars>>

WrapDownEnds ==
  /\ fnPc = "wrapDown"
  /\ ~(fnOut.diff > PI)
  /\ fnPc' = "wrapUp"
  /\ UNCHANGED <<trackA, trackB, fnOut, visited>>
  /\ UNCHANGED <<engineVars, storeVars, mirrorVars>>

\* while (diff < -Math.PI) diff += 2 * Math.PI;
WrapUpStep ==
  /\ fnPc = "wrapUp"
  /\ fnOut.diff < -PI
  /\ fnOut' = [fnOut EXCEPT !.diff = @ + 2 * PI]
  /\ UNCHANGED <<trackA, trackB, fnPc, visited>>
  /\ UNCHANGED <<engineVars, storeVars, mirrorVars>>

\* return diff
WrapUpEnds ==
  /\ fnPc = "wrapUp"
  /\ ~(fnOut.diff < -PI)
  /\ fnPc' = "done"
  /\ UNCHANGED <<trackA, trackB, fnOut, visited>>
  /\ UNCHANGED <<engineVars, storeVars, mirrorVars>>

\* one turn of while (i > 0 || j > 0), lines 308-318
BacktraceStep ==
  /\ fnPc = "backtrace"
  /\ fnOut.i > 0 \/ fnOut.j > 0
  /\ fnOut' = [fnOut EXCEPT
                 !.i = BackStep(fnOut.cost, fnOut.i, fnOut.j)[1],
                 !.j = BackStep(fnOut.cost, fnOut.i, fnOut.j)[2],
                 !.path = Append(@, BackStep(fnOut.cost, fnOut.i, fnOut.j))]
  /\ UNCHANGED <<trackA, trackB, fnPc, visited>>
  /\ UNCHANGED <<engineVars, storeVars, mirrorVars>>

\* path.reverse()
BacktraceEnds ==
  /\ fnPc = "backtrace"
  /\ ~(fnOut.i > 0 \/ fnOut.j > 0)
  /\ fnPc' = "done"
  /\ UNCHANGED <<trackA, trackB, fnOut, visited>>
  /\ UNCHANGED <<engineVars, storeVars, mirrorVars>>

NextLoop == BuilderStep \/ BuilderEnds \/ WrapDownStep \/ WrapDownEnds \/ WrapUpStep \/ WrapUpEnds \/ BacktraceStep \/ BacktraceEnds

\* the step BuilderStep, told by the indexes alone
BuilderStepTaken ==
  /\ fnPc = "builder"
  /\ fnOut.k <= Len(fnOut.frames)
  /\ visited' = Append(visited, fnOut.k)

\* A call that has begun keeps running: the engine is synchronous code on
\* one thread.
SpecLoop ==
  /\ InitLoop
  /\ [][NextLoop]_vars
  /\ WF_visited(BuilderStepTaken)
  /\ WF_vars(BuilderEnds \/ WrapDownStep \/ WrapDownEnds \/ WrapUpStep \/ WrapUpEnds \/ BacktraceStep \/ BacktraceEnds)

----------------------------------------------------------------------------
\* Properties of compareDTW, under Spec

Ran == pc = "scored" /\ ~locals.insufficient

\* C1: whenever the live stream yields fewer than 3 valid feature frames,
\* compareDTW bypasses DTW and returns the fixed insufficient-tracking
\* result (score 0, no path scores), whatever the reference holds.
C1_FewerThanThreeIsInsufficient ==
  (pc = "scored" /\ dtwResult.liveFeatureCount < 3)
    => /\ locals.insufficient
       /\ dtwResult.score = 0
       /\ dtwResult.pathScores = <<>>

\* The ceiling of the ratio band of liveMotion / refMotion
C2_BandCap(liveMotion, refMotion) ==
  CASE 10 * liveMotion < 3 * refMotion -> 15
    [] 10 * liveMotion >= 3 * refMotion /\ 10 * liveMotion < 5 * refMotion -> 30
    [] 10 * liveMotion >= 5 * refMotion /\ 10 * liveMotion < 7 * refMotion -> 55
    [] OTHER -> 100

\* C2: with refMotion >= 0.01 the final score is the smaller of the winning
\* raw DTW score and the cap of the band of liveMotion / refMotion (15 below
\* 0.3, 30 below 0.5, 55 below 0.7, none from 0.7 on), so it exceeds neither.
C2_PenaltyIsCeiling ==
  (Ran /\ 100 * locals.refMotion >= Unit)
    => LET cap == C2_BandCap(locals.liveMotion, locals.refMotion)
       IN /\ dtwResult.score = Min2(locals.rawScore, cap)
          /\ dtwResult.score <= locals.rawScore
          /\ dtwResult.score <= cap

\* A cap below the raw score was applied.
C2_CapApplied ==
  /\ Ran
  /\ 100 * locals.refMotion >= Unit
  /\ locals.rawScore > 55
  /\ dtwResult.score = 55

\* The angle two directions are apart, in 0..PI
C3_Turn(a, b) == LET d == Abs(a - b) IN Min2(d, 2 * PI - d)

\* The arm-angle motion of a feature sequence, from the arm-angle slots 0..3
\* of consecutive vectors
C3_ArmMotion(feats) ==
  SumSeq([k \in 1..(Len(feats) - 1) |->
            SumSeq([a \in 1..4 |-> C3_Turn(feats[k + 1][a], feats[k][a])])])

\* C3: when every live frame has the same arm angles and the reference has
\* substantial arm-angle motion, the final score is at most 15 and the
\* low-motion flag is true.
C3_StillLiveIsCapped ==
  (Ran /\ C3_ArmMotion(locals.liveFeats) = 0
       /\ 100 * C3_ArmMotion(locals.refFeats) > Unit)
    => /\ dtwResult.score <= 15
       /\ dtwResult.lowMotion = TRUE

\* A still performance whose raw DTW score is above the cap
C3_StillLiveScored ==
  /\ Ran
  /\ C3_ArmMotion(locals.liveFeats) = 0
  /\ 100 * C3_ArmMotion(locals.refFeats) > Unit
  /\ locals.rawScore > 15
  /\ dtwResult.score = 15

\* C4: when the live stream in its original orientation yields the feature
\* sequence of the reference (at least 2 vectors), compareDTW returns score
\* 100, mirrored = false and lowMotion = false.
C4_IdenticalScoresFull ==
  (pc = "scored" /\ Len(locals.liveFeats) >= 2 /\ locals.liveFeats = locals.refFeats)
    => /\ dtwResult.score = 100
       /\ dtwResult.mirrored = FALSE
       /\ dtwResult.lowMotion = FALSE

\* An identical performance of three frames with arm motion
C4_IdenticalScored ==
  /\ pc = "scored"
  /\ Len(locals.liveFeats) = 3
  /\ locals.liveFeats = locals.refFeats
  /\ locals.refMotion > 0
  /\ dtwResult.score = 100

\* The pose joint that takes the place of joint k (JavaScript index) when
\* left and right are exchanged
C5_Partner(k) ==
  CASE k = 11 -> 12 [] k = 12 -> 11 [] k = 13 -> 14 [] k = 14 -> 13
    [] k = 15 -> 16 [] k = 16 -> 15 [] k = 23 -> 24 [] k = 24 -> 23
    [] OTHER -> k

C5_Flip(points) == [k \in 1..Len(points) |-> <<Unit - points[k][1], points[k][2]>>]

\* The frames with left and right body joints and hands exchanged and every
\* x-coordinate reflected
C5_MirrorImage(frames) ==
  [f \in 1..Len(frames) |->
     [pose |-> IF frames[f].pose = NULL THEN NULL
               ELSE C5_Flip([k \in 1..Len(frames[f].pose) |->
                               frames[f].pose[C5_Partner(k - 1) + 1]]),
      rightHand |-> IF frames[f].leftHand = NULL THEN NULL
                    ELSE C5_Flip(frames[f].leftHand),
      leftHand |-> IF frames[f].rightHand = NULL THEN NULL
                   ELSE C5_Flip(frames[f].rightHand),
      face |-> frames[f].face]]

\* The live stream is the mirror image of the reference performance.
C5_LiveIsMirrorImage ==
  /\ pc = "scored"
  /\ Len(locals.refFeats) >= 2
  /\ processLiveFrames(C5_MirrorImage(recorded)) = locals.refFeats

\* C5 as claimed: when the live stream equals the reference performance
\* with left/right joints and hands swapped and every x reflected,
\* compareDTW returns mirrored = true and score 100.
C5_MirrorImageIsMirrored ==
  C5_LiveIsMirrorImage
    => /\ dtwResult.mirrored = TRUE
       /\ dtwResult.score = 100

\* C5 as amended: for such a live stream compareDTW returns score 100, and
\* mirrored = true exactly when the original orientation's DTW score is
\* below 100.
C5_MirrorImageScoresFull ==
  C5_LiveIsMirrorImage
    => /\ dtwResult.score = 100
       /\ dtwResult.mirrored = (locals.originalScore < 100)

\* A mirror-image performance with a hand, recognised as mirrored
C5_MirrorImageScored ==
  /\ C5_LiveIsMirrorImage
  /\ \E f \in 1..Len(recorded) : recorded[f].leftHand # NULL
  /\ locals.originalScore < 100
  /\ dtwResult.mirrored = TRUE
  /\ dtwResult.score = 100

ResultFields ==
  {"score", "pathScores", "avgDistance", "liveFeatureCount", "refFeatureCount",
   "mirrored", "lowMotion"}

\* C10: every result compareDTW returns, the insufficient-data result
\* included, carries score, path scores, average distance, both valid-frame
\* counts, the mirrored flag and the low-motion flag as a boolean.
C10_ResultIsComplete ==
  pc = "scored"
    => /\ ResultFields \subseteq DOMAIN dtwResult
       /\ dtwResult.mirrored \in BOOLEAN
       /\ dtwResult.lowMotion \in BOOLEAN

\* C11: when the reference yields fewer than 2 valid feature frames, or the
\* live stream yields fewer than 2 in both orientations, compareDTW runs no
\* alignment and returns the placeholder: score 0, an empty path, an infinite
\* average distance and mirrored = false.
C11_TooShortGivesPlaceholder ==
  (pc = "scored"
     /\ (Len(locals.refFeats) < 2
           \/ (Len(locals.liveFeats) < 2 /\ Len(locals.mirroredFeats) < 2)))
    => /\ locals.insufficient
       /\ dtwResult.score = 0
       /\ dtwResult.pathScores = <<>>
       /\ dtwResult.avgDistance = Infinity
       /\ dtwResult.mirrored = FALSE

\* A one-frame reference against a live stream of three valid frames
C11_ShortReference ==
  /\ pc = "scored"
  /\ Len(locals.refFeats) = 1
  /\ Len(locals.liveFeats) = 3
  /\ locals.insufficient
  /\ dtwResult.avgDistance = Infinity

\* C12: the final score compareDTW returns is an integer from 0 to 100, and
\* so is every path score, in the placeholder result as in an aligned one.
C12_ScoresInRange ==
  pc = "scored"
    => /\ dtwResult.score \in 0..100
       /\ \A k \in 1..Len(dtwResult.pathScores) : dtwResult.pathScores[k] \in 0..100

\* An aligned result with a score and a path score strictly inside the range
C12_MiddlingScore ==
  /\ Ran
  /\ dtwResult.score \in 1..99
  /\ \E k \in 1..Len(dtwResult.pathScores) :
       /\ dtwResult.pathScores[k] \in 1..99
       /\ dtwResult.pathScores[k] # dtwResult.score

\* C16: standing still always gives 0 stars: whenever the winning live
\* feature sequence has zero motion energy, the final score is at most 30
\* and getStarRating of it is 0, whatever the reference is.
C16_StillGivesNoStars ==
  (Ran /\ locals.liveMotion = 0)
    => /\ dtwResult.score <= 30
       /\ getStarRating(dtwResult.score) = 0

\* The performance of a pose recorded in the other format: the eight
\* upper-body joints at the indices of that format
C20_Recast(pose, from, to, size) ==
  [k \in 1..size |->
     IF \E s \in 1..Len(to) : to[s] = k - 1
     THEN pose[from[CHOOSE s \in 1..Len(to) : to[s] = k - 1] + 1]
     ELSE Pt(512, 128)]

\* A reference as a live recording, and a live recording as a reference
C20_AsLive(frames) ==
  [f \in 1..Len(frames) |->
     [frames[f] EXCEPT !.pose = C20_Recast(frames[f].pose, REF_UPPER, LIVE_UPPER, 33)]]

C20_AsRef(frames) ==
  [f \in 1..Len(frames) |->
     [frames[f] EXCEPT !.pose = C20_Recast(frames[f].pose, LIVE_UPPER, REF_UPPER, 17),
                       !.face = NULL]]

\* The features of each stored reference, from its frames as stored
C20_UnmirroredFeatures == [frames \in References |-> processRefFrames(frames)]

\* C20: compareDTW mirrors only the live stream: the reference features are
\* those of the unmirrored reference frames, the frames mirrored are the
\* live ones, the live features of either orientation are aligned with
\* these same reference features, and the comparison is not symmetric:
\* exchanging the live and the reference performance can change the result.
C20_OnlyLiveIsMirrored ==
  /\ pc = "scored"
       => /\ locals.refFeats = C20_UnmirroredFeatures[refFrames]
          /\ locals.mirroredFrames = C5_MirrorImage(recorded)
  /\ (Ran /\ Len(locals.liveFeats) >= 2)
       => locals.originalScore = dtw(locals.liveFeats, locals.refFeats).score
  /\ (Ran /\ Len(locals.mirroredFeats) >= 2)
       => locals.mirroredScore = dtw(locals.mirroredFeats, locals.refFeats).score

\* A moving reference and a live stream with a hand, whose exchange scores
\* differently
C20_ExchangeChangesScore ==
  /\ Ran
  /\ \A f \in 1..Len(recorded) : recorded[f].pose # NULL
  /\ \E f \in 1..Len(refFrames) : refFrames[f].rightHand # NULL
  /\ locals.mirroredFeats # locals.liveFeats
  /\ compareDTW(C20_AsLive(refFrames), C20_AsRef(recorded)).liveFeatureCount
       = dtwResult.refFeatureCount
  /\ compareDTW(C20_AsLive(refFrames), C20_AsRef(recorded)).refFeatureCount
       = dtwResult.liveFeatureCount
  /\ compareDTW(C20_AsLive(refFrames), C20_AsRef(recorded)).score # dtwResult.score

\* C25: the mirrored flag is true exactly when the mirrored alignment's DTW
\* score is strictly greater than the original alignment's; on equal scores
\* the original orientation is used, and the raw score before the motion
\* penalty is the maximum of the two DTW scores.
C25_MirroredIffStrictlyBetter ==
  Ran
    => /\ dtwResult.mirrored = (locals.mirroredScore > locals.originalScore)
       /\ locals.rawScore = Max2(locals.originalScore, locals.mirroredScore)
       /\ locals.mirroredScore = locals.originalScore
            => locals.liveMotion = computeMotion(locals.liveFeats)

\* The mirrored orientation scores strictly higher and is used
C25_MirroredWins ==
  /\ Ran
  /\ locals.mirroredScore > locals.originalScore
  /\ locals.originalScore > 0
  /\ dtwResult.mirrored = TRUE
  /\ locals.rawScore = locals.mirroredScore

\* C26: the low-motion flag depends only on the motion ratio: it is true
\* exactly when the reference motion is above 0.01 and liveMotion / refMotion
\* is below 0.5, whatever the raw DTW score is and whether or not a cap
\* changed the score.
C26_LowMotionFromRatioOnly ==
  Ran
    => dtwResult.lowMotion
         = (100 * locals.refMotion > Unit /\ 2 * locals.liveMotion < locals.refMotion)

\* Low motion flagged although the raw score was below the cap and stayed
C26_FlaggedWithoutCap ==
  /\ Ran
  /\ dtwResult.lowMotion = TRUE
  /\ dtwResult.score = locals.rawScore

----------------------------------------------------------------------------
\* Properties of dtw and featureDistance, under SpecFn

DtwRan == fnPc = "done" /\ fnOut.fn = "dtw" /\ Len(trackA) >= 1 /\ Len(trackB) >= 1

\* C7: for sequences of lengths n >= 1 and m >= 1 the alignment path of dtw
\* starts at cell (0,0), ends at cell (n-1, m-1), and its length is between
\* max(n, m) and n + m - 1.
C7_PathEndsAndLength ==
  DtwRan
    => LET n == Len(trackA)
           m == Len(trackB)
           path == fnOut.path
       IN /\ path[1] = <<0, 0>>
          /\ path[Len(path)] = <<n - 1, m - 1>>
          /\ Len(path) >= Max2(n, m)
          /\ Len(path) <= n + m - 1

\* A path through a 3 x 3 matrix that leaves the diagonal
C7_LongPath ==
  /\ DtwRan
  /\ Len(trackA) = 3
  /\ Len(trackB) = 3
  /\ Len(fnOut.path) = 4

\* The smallest sum of distances over the monotonic paths from (0,0) to
\* cell (i, j) (JavaScript indices), in exact arithmetic
RECURSIVE C8_MinSum(_, _, _)
C8_MinSum(distMatrix, i, j) ==
  LET d == distMatrix[i + 1][j + 1]
  IN IF i = 0 /\ j = 0 THEN d
     ELSE IF i = 0 THEN d + C8_MinSum(distMatrix, i, j - 1)
     ELSE IF j = 0 THEN d + C8_MinSum(distMatrix, i - 1, j)
     ELSE d + Min3(C8_MinSum(distMatrix, i - 1, j),
                   C8_MinSum(distMatrix, i, j - 1),
                   C8_MinSum(distMatrix, i - 1, j - 1))

\* C8: the sum of the distances along the path dtw returns equals the
\* cumulative cost at cell (n-1, m-1), and no monotonic path from (0,0) to
\* (n-1, m-1) has a smaller sum.
C8_PathIsLowestCost ==
  DtwRan
    => LET n == Len(trackA)
           m == Len(trackB)
       IN /\ SumSeq(fnOut.pathDists) = fnOut.cost[n][m]
          /\ SumSeq(fnOut.pathDists)
               <= C8_MinSum(TrackMatrix(trackA, trackB), n - 1, m - 1)

FnDistance == fnPc = "done" /\ fnOut.fn = "featureDistance"

\* The components with a non-zero slot in either vector
C9_Included(vecA, vecB) ==
  {c \in 1..Len(COMPONENTS) :
     \E i \in COMPONENTS[c].start..(COMPONENTS[c].end - 1) :
        Slot(vecA, i) # 0 \/ Slot(vecB, i) # 0}

\* weight x RMS of the slot differences of component c
C9_Term(vecA, vecB, c) ==
  LET dims == COMPONENTS[c].end - COMPONENTS[c].start
      squares == [k \in 1..dims |->
                    (Slot(vecA, COMPONENTS[c].start + k - 1)
                       - Slot(vecB, COMPONENTS[c].start + k - 1)) ^ 2]
  IN COMPONENTS[c].weight * Sqrt(RoundDiv(SumSeq(squares), dims))

\* The weighted mean over the included components, 0 when there is none
C9_WeightedMean(vecA, vecB) ==
  LET inc == C9_Included(vecA, vecB)
      num == SumSeq([c \in 1..Len(COMPONENTS) |->
                       IF c \in inc THEN C9_Term(vecA, vecB, c) ELSE 0])
      den == SumSeq([c \in 1..Len(COMPONENTS) |->
                       IF c \in inc THEN COMPONENTS[c].weight ELSE 0])
  IN IF inc = {} THEN 0 ELSE RoundDiv(num, den) * (DistUnit \div Unit)

\* C9: featureDistance leaves out exactly the components whose slots are all
\* zero in both vectors: it is the sum of weight x RMS over the others
\* divided by the sum of their weights, and 0 when no component is left.
C9_MeanOverIncluded ==
  FnDistance => fnOut.dist = C9_WeightedMean(fnOut.vecA, fnOut.vecB)

\* Two vectors that differ, with a component left out and one counted
C9_ComponentLeftOut ==
  /\ FnDistance
  /\ C9_Included(fnOut.vecA, fnOut.vecB) # {}
  /\ C9_Included(fnOut.vecA, fnOut.vecB) # 1..Len(COMPONENTS)
  /\ fnOut.dist > 0

FnProcess == fnPc = "done" /\ fnOut.fn = "processFrames"

\* The frames that yield a feature vector: those with a pose
C17_ValidFrames(frames) == SelectSeq(frames, LAMBDA f : f.pose # NULL)

\* The slots of the vector from JavaScript index first to last
C17_Block(vector, first, last) == SubSeq(vector, first + 1, last + 1)

\* The block of a hand or a face: zeros when it is absent
C17_Padded(values, size) == IF values = NULL THEN Zeros(size) ELSE values

\* C17: every feature vector of processLiveFrames and processRefFrames has
\* exactly 60 slots in the layout 4 arm angles, 16 positions, 4 velocities,
\* 15 right-hand angles, 15 left-hand angles, 6 face features, for every
\* combination of present and absent hands and face, and the block of an
\* absent hand or face is all zeros.
C17_SixtySlotsPadded ==
  FnProcess
    => LET valid == C17_ValidFrames(fnOut.frames)
       IN /\ Len(fnOut.features) = Len(valid)
          /\ \A k \in 1..Len(valid) :
               LET vector == fnOut.features[k]
                   frame == valid[k]
               IN /\ Len(vector) = 60
                  /\ C17_Block(vector, 24, 38)
                       = C17_Padded(extractFingerAngles(frame.rightHand), 15)
                  /\ C17_Block(vector, 39, 53)
                       = C17_Padded(extractFingerAngles(frame.leftHand), 15)
                  /\ C17_Block(vector, 54, 59)
                       = C17_Padded(extractFaceFeatures(frame.face), 6)
                  /\ frame.rightHand = NULL => C17_Block(vector, 24, 38) = Zeros(15)
                  /\ frame.leftHand = NULL => C17_Block(vector, 39, 53) = Zeros(15)
                  /\ frame.face = NULL => C17_Block(vector, 54, 59) = Zeros(6)

\* A live frame with a left hand and a face and no right hand: the
\* right-hand block is zeros between filled blocks
C17_AbsentBetweenPresent ==
  /\ FnProcess
  /\ fnOut.live
  /\ Len(fnOut.features) = 2
  /\ fnOut.frames[2].rightHand = NULL
  /\ fnOut.frames[2].leftHand # NULL
  /\ fnOut.frames[2].face # NULL
  /\ C17_Block(fnOut.features[2], 20, 23) # Zeros(4)
  /\ C17_Block(fnOut.features[2], 24, 38) = Zeros(15)
  /\ \A i \in 39..59 : fnOut.features[2][i + 1] # 0

\* C18: the distance of a feature vector to itself is 0, for every vector:
\* featureDistance(v, v) = 0.
C18_SelfDistanceIsZero ==
  (FnDistance /\ fnOut.vecA = fnOut.vecB) => fnOut.dist = 0

\* A vector with arm angles, positions, velocities and a hand, against itself
C18_FilledVectorAgainstItself ==
  /\ FnDistance
  /\ fnOut.vecA = fnOut.vecB
  /\ Len(fnOut.vecA) = FIXED_VECTOR_LENGTH
  /\ Cardinality(C9_Included(fnOut.vecA, fnOut.vecB)) >= 4
  /\ fnOut.dist = 0

FnScore == fnPc = "done" /\ fnOut.fn = "distToScore"

C29_Cost(i, j) == fnOut.cost[i + 1][j + 1]

\* The cell the backtrace must step to from the interior cell (i, j)
C29_Preferred(i, j) ==
  LET d == C29_Cost(i - 1, j - 1)
      u == C29_Cost(i - 1, j)
      l == C29_Cost(i, j - 1)
  IN CASE d <= u /\ d <= l -> <<i - 1, j - 1>>
       [] ~(d <= u /\ d <= l) /\ u <= l -> <<i - 1, j>>
       [] OTHER -> <<i, j - 1>>

\* C29: every step of the backtrace goes from (i, j) to (i-1, j-1), (i-1, j)
\* or (i, j-1); at an interior cell it goes to a predecessor of minimum
\* cumulative cost, the diagonal before up before left on ties; on row 0 or
\* column 0 it steps along the border.  (The path is stored reversed: the
\* step from path[k + 1] leads to path[k].)
C29_BacktraceSteps ==
  DtwRan
    => \A k \in 1..(Len(fnOut.path) - 1) :
         LET i == fnOut.path[k + 1][1]
             j == fnOut.path[k + 1][2]
             to == fnOut.path[k]
         IN /\ to \in {<<i - 1, j - 1>>, <<i - 1, j>>, <<i, j - 1>>}
            /\ to[1] >= 0 /\ to[2] >= 0
            /\ i = 0 => to = <<0, j - 1>>
            /\ (i > 0 /\ j = 0) => to = <<i - 1, 0>>
            /\ (i > 0 /\ j > 0)
                 => /\ to = C29_Preferred(i, j)
                    /\ C29_Cost(to[1], to[2])
                         = Min3(C29_Cost(i - 1, j - 1), C29_Cost(i - 1, j),
                                C29_Cost(i, j - 1))

\* A path with a step along the border and an interior step taken
\* diagonally although the cell above costs the same
C29_TieAndBorder ==
  /\ DtwRan
  /\ \E k \in 1..(Len(fnOut.path) - 1) :
       /\ fnOut.path[k + 1][1] > 0 /\ fnOut.path[k + 1][2] > 0
       /\ fnOut.path[k] = <<fnOut.path[k + 1][1] - 1, fnOut.path[k + 1][2] - 1>>
       /\ C29_Cost(fnOut.path[k + 1][1] - 1, fnOut.path[k + 1][2])
            = C29_Cost(fnOut.path[k][1], fnOut.path[k][2])
  /\ \E k \in 1..(Len(fnOut.path) - 1) :
       fnOut.path[k + 1][1] = 0 \/ fnOut.path[k + 1][2] = 0

FnSequence == fnPc = "done" /\ fnOut.fn = "processSequence"

\* The velocity slots (JavaScript indices 20..23) of a feature vector
C28_Velocity(vector) == SubSeq(vector, 21, 24)

\* C28 as claimed: every velocity slot of every feature vector lies in the
\* half-open interval (-PI, PI], and is 0 when there is no previous frame.
C28_VelocityInHalfOpenInterval ==
  FnSequence
    => \A k \in 1..Len(fnOut.features) :
         /\ \A a \in 1..4 : /\ C28_Velocity(fnOut.features[k])[a] > -PI
                            /\ C28_Velocity(fnOut.features[k])[a] <= PI
         /\ k = 1 => C28_Velocity(fnOut.features[k]) = Zeros(4)

\* C28 as amended: every velocity slot of every feature vector lies in the
\* closed interval [-PI, PI] (a difference of exactly -PI is left as it
\* is), and is 0 when there is no previous frame.
C28_VelocityInClosedInterval ==
  FnSequence
    => \A k \in 1..Len(fnOut.features) :
         /\ \A a \in 1..4 : /\ C28_Velocity(fnOut.features[k])[a] >= -PI
                            /\ C28_Velocity(fnOut.features[k])[a] <= PI
         /\ k = 1 => C28_Velocity(fnOut.features[k]) = Zeros(4)

\* A difference below -PI wrapped up by 2 PI and one above PI wrapped down
C28_WrappedBothWays ==
  /\ FnSequence
  /\ Len(fnOut.features) = 3
  /\ \E k \in 2..3 :
       /\ fnOut.features[k][1] - fnOut.features[k - 1][1] < -PI
       /\ fnOut.features[k][21]
            = fnOut.features[k][1] - fnOut.features[k - 1][1] + 2 * PI
  /\ \E k \in 2..3 :
       /\ fnOut.features[k][1] - fnOut.features[k - 1][1] > PI
       /\ fnOut.features[k][21]
            = fnOut.features[k][1] - fnOut.features[k - 1][1] - 2 * PI

\* Four times the normalization scale (shoulder width + torso height) / 2 of
\* a pose whose upper-body joints are at the indices upper, in 1/Unit
C27_Scale4(pose, upper) ==
  LET lSh == pose[upper[1] + 1]
      rSh == pose[upper[2] + 1]
      lHip == pose[upper[7] + 1]
      rHip == pose[upper[8] + 1]
  IN 2 * Hypot(lSh[1] - rSh[1], lSh[2] - rSh[2])
       + Hypot(lSh[1] + rSh[1] - lHip[1] - rHip[1], lSh[2] + rSh[2] - lHip[2] - rHip[2])

\* The frame has a pose of the required length and a scale of at least 0.01
C27_Survives(frame, upper, minLen) ==
  /\ frame.pose # NULL
  /\ Len(frame.pose) >= minLen
  /\ 100 * C27_Scale4(frame.pose, upper) >= 4 * Unit

\* C27: processLiveFrames and processRefFrames output, in input order,
\* exactly one vector per input frame that has a pose of the required length
\* and a normalization scale >= 0.01; every other frame is dropped and the
\* frames after it are still processed; the velocity of each surviving frame
\* is taken against the previous surviving frame, and is all zero for the
\* first one.
C27_OneVectorPerSurvivor ==
  FnSequence
    => LET upper == IF fnOut.live THEN LIVE_UPPER ELSE REF_UPPER
           minLen == IF fnOut.live THEN 25 ELSE 17
           survivors == SelectSeq(fnOut.frames, LAMBDA f : C27_Survives(f, upper, minLen))
       IN /\ Len(fnOut.features) = Len(survivors)
          /\ \A k \in 1..Len(survivors) :
               /\ SubSeq(fnOut.features[k], 1, 20)
                    = SubSeq(featuresOfFrame(survivors[k], upper, minLen, NULL).vector, 1, 20)
               /\ k = 1 => SubSeq(fnOut.features[k], 21, 24) = Zeros(4)
               /\ k > 1 => \A a \in 1..4 :
                             (fnOut.features[k][20 + a]
                                - (fnOut.features[k][a] - fnOut.features[k - 1][a]))
                               % (2 * PI) = 0

\* A frame with a full pose but a scale below 0.01 dropped between two
\* surviving frames, the second of which moved against the first
C27_DroppedBetweenSurvivors ==
  /\ FnSequence
  /\ Len(fnOut.frames) = 3
  /\ Len(fnOut.features) = 2
  /\ fnOut.frames[2].pose # NULL
  /\ Len(fnOut.frames[2].pose) >= 17
  /\ fnOut.features[2][21] # 0
  /\ fnOut.features[2][21] = fnOut.features[2][1] - fnOut.features[1][1]

----------------------------------------------------------------------------
\* Properties of getStarRating and generateFeedback, under SpecFn

FnFeedback == fnPc = "done" /\ fnOut.fn = "generateFeedback"

FnStars == fnPc = "done" /\ fnOut.fn = "getStarRating"

C13_LowMotion(result) == "lowMotion" \in DOMAIN result /\ result.lowMotion

\* The first phrase of each score tier
C13_TierPhrase(score) ==
  CASE score >= 86 -> "Amazing! Perfect sign!"
    [] score >= 61 /\ score < 86 -> "Great signing! Almost perfect!"
    [] score >= 31 /\ score < 61 -> "Good try! You're getting closer."
    [] OTHER -> "Let's try again! Watch the video and copy the movements."

\* C13: generateFeedback returns exactly the single tracking-unclear phrase
\* whenever the live valid-frame count is below 3, whatever the score and
\* lowMotion are; otherwise, when lowMotion is set, exactly the two
\* movement-encouragement phrases; only when neither applies do the phrases
\* follow from the score.
C13_OverridesBeforeScore ==
  FnFeedback
    => LET result == fnOut.dtwResult
       IN /\ result.liveFeatureCount < 3
               => fnOut.tips = <<"Let's make sure your upper body is nice and visible. Try stepping back a little!">>
          /\ (result.liveFeatureCount >= 3 /\ C13_LowMotion(result))
               => fnOut.tips = <<"Try moving your arms along with the video!",
                                 "Watch the video again and copy the arm movements.">>
          /\ (result.liveFeatureCount >= 3 /\ ~C13_LowMotion(result))
               => fnOut.tips[1] = C13_TierPhrase(result.score)

\* A top score with lowMotion set and fewer than 3 valid live frames
C13_BothOverridesApply ==
  /\ FnFeedback
  /\ fnOut.dtwResult.liveFeatureCount = 2
  /\ C13_LowMotion(fnOut.dtwResult)
  /\ fnOut.dtwResult.score = 100
  /\ Len(fnOut.tips) = 1

\* C14: generateFeedback returns a non-empty list of phrases for every
\* result: any score from 0 to 100, any lowMotion, any live valid-frame
\* count, any path, the empty and the very short ones included.
C14_TipsNeverEmpty ==
  FnFeedback => Len(fnOut.tips) >= 1

\* A score of the 61..85 tier with a path too short to have thirds
C14_ShortPathInSecondTier ==
  /\ FnFeedback
  /\ fnOut.dtwResult.liveFeatureCount >= 3
  /\ ~C13_LowMotion(fnOut.dtwResult)
  /\ fnOut.dtwResult.score \in 61..85
  /\ Len(fnOut.dtwResult.pathScores) \in 1..2
  /\ Len(fnOut.tips) = 1

\* The stars the documented tiers give: 0 for 0-30, 1 for 31-60, 2 for
\* 61-85, 3 for 86-100
C15_StatedStars(score) ==
  CASE score >= 86 -> 3
    [] score >= 61 /\ score < 86 -> 2
    [] score >= 31 /\ score < 61 -> 1
    [] OTHER -> 0

\* The first phrase generateFeedback gives in the tier of that many stars
C15_StarPhrase(stars) ==
  CASE stars = 3 -> "Amazing! Perfect sign!"
    [] stars = 2 -> "Great signing! Almost perfect!"
    [] stars = 1 -> "Good try! You're getting closer."
    [] OTHER -> "Let's try again! Watch the video and copy the movements."

\* C15: getStarRating returns 0 for scores 0-30, 1 for 31-60, 2 for 61-85
\* and 3 for 86-100, the boundaries of generateFeedback's phrase tiers, so
\* that the star tier and the phrase tier of a score agree.
C15_StarsFollowStatedTiers ==
  /\ FnStars => fnOut.stars = C15_StatedStars(fnOut.score)
  /\ (FnFeedback /\ fnOut.dtwResult.liveFeatureCount >= 3
        /\ ~C13_LowMotion(fnOut.dtwResult))
       => fnOut.tips[1] = C15_StarPhrase(getStarRating(fnOut.dtwResult.score))

----------------------------------------------------------------------------
\* Properties of the storage layer, under SpecStore

\* the Supabase operation of the call throws: the query on the table fails,
\* getWord finds no single row, or saveWord cannot upload the video
C24_SupabaseFails(op, word, rows, storageFault, tableFault) ==
  \/ tableFault
  \/ op = "getWord" /\ ~\E w \in rows : w.id = word.id
  \/ op = "saveWord" /\ word.video /\ storageFault

\* the operation of the call run against IndexedDB
C24_OnIndexedDB(op, word, idb, idbFault) ==
  IF op = "getAllWords" THEN idbGetAllWords(idb, idbFault)
  ELSE IF op = "getWord" THEN idbGetWord(idb, word.id, idbFault)
  ELSE IF op = "saveWord" THEN idbSaveWord(idb, word, idbFault)
  ELSE idbDeleteWord(idb, word.id, idbFault)

\* the call settled as the operation on IndexedDB settles
C24_SettledAs(out, local, idbAfter) ==
  /\ out.ok = local.ok
  /\ out.value = local.value
  /\ idbAfter = local.idbWords

\* C24: each call of getAllWords, getWord, saveWord and deleteWord touches
\* IndexedDB only when Supabase is not configured; when Supabase is configured
\* and its operation fails, the same operation runs against IndexedDB and the
\* call settles as that does; no call fails unless IndexedDB failed.
C24_FallsBackToIndexedDB ==
  [][storeOut'.op # "none" =>
       LET out == storeOut'
           local == C24_OnIndexedDB(out.op, out.word, idbWords, out.idbFault)
       IN /\ ~useSupabase =>
               /\ out.calls = <<"indexeddb">>
               /\ supaWords' = supaWords /\ supaVideos' = supaVideos
               /\ C24_SettledAs(out, local, idbWords')
          /\ (useSupabase /\ C24_SupabaseFails(out.op, out.word, supaWords,
                                               out.storageFault, out.tableFault)) =>
               /\ out.calls = <<"supabase", "indexeddb">>
               /\ C24_SettledAs(out, local, idbWords')
          /\ ~out.ok => out.idbFault]_vars

\* With Supabase configured, getWord failed there and returned the word
\* that an earlier fallback had saved to IndexedDB.
C24_FoundAfterFallback ==
  /\ useSupabase
  /\ storeOut.op = "getWord"
  /\ \/ storeOut.tableFault
     \/ ~\E w \in supaWords : w.id = storeOut.word.id
  /\ storeOut.calls = <<"supabase", "indexeddb">>
  /\ storeOut.ok
  /\ storeOut.value # {}

----------------------------------------------------------------------------
\* Properties of the MagicMirror component, under SpecMirror

\* C23 as stated: a frame is appended to the recording only while the phase
\* is PRACTICE, and the recording does not change from the step that hands
\* it to compareDTW until compareDTW has returned.
C23_AppendedOnlyInPractice ==
  /\ [][Len(recorded') > Len(recorded) => phase = "PRACTICE"]_vars
  /\ [][pc = "compareDTW" => recorded' = recorded]_vars

\* C23, amended: a frame is appended only by the render loop created for the
\* PRACTICE phase, that is while the phase is PRACTICE or after SCORING was
\* committed and before its effects ran; the loop is cancelled before the
\* SCORING effect hands the recording to compareDTW, and the recording does
\* not change until compareDTW has returned.
C23_AppendedOnlyByPracticeLoop ==
  /\ [][Len(recorded') > Len(recorded) =>
          /\ pc = "idle"
          /\ effectPhase = "PRACTICE"
          /\ \/ phase = "PRACTICE"
             \/ phase = "SCORING" /\ ~flushed]_vars
  /\ [][pc = "compareDTW" => recorded' = recorded]_vars
  /\ [](pc = "compareDTW" => phase = "SCORING" /\ ~loopRuns(effectPhase))

\* The SCORING effect has handed a full recording to compareDTW.
C23_RecordingHandedOver ==
  /\ pc = "compareDTW"
  /\ phase = "SCORING"
  /\ Len(recorded) >= 3

\* the changes of phase in the order SELECT, WATCH, COUNTDOWN, PRACTICE,
\* SCORING, FEEDBACK, and from FEEDBACK back to WATCH or to SELECT
C30_Order ==
  {<<"SELECT", "WATCH">>, <<"WATCH", "COUNTDOWN">>, <<"COUNTDOWN", "PRACTICE">>,
   <<"PRACTICE", "SCORING">>, <<"SCORING", "FEEDBACK">>,
   <<"FEEDBACK", "WATCH">>, <<"FEEDBACK", "SELECT">>}

\* C30: once START or TRY AGAIN was pressed the phase changes in the order
\* WATCH, COUNTDOWN, PRACTICE, SCORING, FEEDBACK, and FEEDBACK is reached in
\* the end whatever becomes of the load of the reference data, for every
\* word that has reference data to load.
C30_InOrderToFeedback ==
  /\ [][phase' # phase => <<phase, phase'>> \in C30_Order]_vars
  /\ ((phase = "WATCH" /\ refData # "absent") ~> phase = "FEEDBACK")

\* What does hold: the order, and FEEDBACK in the end once the reference
\* data are there.
C30_InOrderToFeedbackWhenLoaded ==
  /\ [][phase' # phase => <<phase, phase'>> \in C30_Order]_vars
  /\ ((phase = "WATCH" /\ refData = "loaded") ~> phase = "FEEDBACK")

----------------------------------------------------------------------------
\* Properties of the loops of a compareDTW call, under SpecLoop

\* what a loop has computed when it is left
C21_Result ==
  IF fnOut.fn = "builder"
  THEN /\ visited = [k \in 1..Len(fnOut.frames) |-> k]
       /\ fnOut.features = IF fnOut.live THEN processLiveFrames(fnOut.frames)
                           ELSE processRefFrames(fnOut.frames)
  ELSE IF fnOut.fn = "wrap"
  THEN /\ -PI <= fnOut.diff /\ fnOut.diff <= PI
       /\ fnOut.diff = WrapUp(WrapDown(fnOut.ang - fnOut.prev))
  ELSE /\ fnOut.i = 0 /\ fnOut.j = 0
       /\ fnOut.path[Len(fnOut.path)] = <<0, 0>>
       /\ fnOut.path = Backtrace(fnOut.cost, <<fnOut.path[1]>>)

\* C21: every loop of a compareDTW call on finite inputs is left: the loop
\* of a sequence builder has been through each frame once, in order, the
\* wrap loops of the velocity end with the difference in [-pi, pi], and the
\* backtrace reaches (0, 0), every step of it lowering i + j with neither
\* index below 0; what the loops leave is what dtw and the builders return.
C21_EveryLoopTerminates ==
  /\ <>(fnPc = "done")
  /\ [][fnPc = "backtrace" /\ fnOut' # fnOut =>
          /\ fnOut'.i + fnOut'.j < fnOut.i + fnOut.j
          /\ fnOut'.i >= 0 /\ fnOut'.j >= 0]_vars
  /\ [](fnPc = "done" => C21_Result)

\* A backtrace has ended after a step inside the matrix that was not the
\* diagonal one and a step along the border.
C21_BacktraceEnded ==
  /\ fnPc = "done"
  /\ fnOut.fn = "backtrace"
  /\ \E k \in 1..(Len(fnOut.path) - 1) :
        /\ fnOut.path[k][1] > 0 /\ fnOut.path[k][2] > 0
        /\ fnOut.path[k + 1] # <<fnOut.path[k][1] - 1, fnOut.path[k][2] - 1>>
  /\ \E k \in 1..(Len(fnOut.path) - 1) :
        fnOut.path[k][1] = 0 \/ fnOut.path[k][2] = 0
====
